---- MODULE Spec2Model ----
(***************************************************************************)
(* Model of the ITSM dashboards: the response-normalization layer and    *)
(* the AI text reformatters (src/utils.py, src/admin_app.py), the Lambda   *)
(* wrapper (src/lambda_client.py) and the login session (src/app.py).      *)
(* Python values are tagged records [t, v]; a Python str                   *)
(* is a sequence of one-character strings, so that parsing and formatting  *)
(* are computed character by character.  A call's outcome is a record      *)
(* [exc, val]: exc names the exception that left the function, or "none".  *)
(***************************************************************************)
EXTENDS Integers, Sequences, FiniteSets, TLC

VARIABLES
    pc,          \* which call of the current interaction has run
    response,    \* argument of parse_response_body
    unwrapped,   \* outcome of parse_response_body
    status,      \* argument of validate_status
    ticket,      \* the ticket object handed to normalize_ticket_data (mutated in place)
    ticket0,     \* the ticket as it was before the first call
    prev,        \* the ticket as it was before the latest call
    calls,       \* number of normalize_ticket_data calls made on the ticket
    outcome,     \* outcome of the latest validate_status / normalize call
    tickets,     \* argument of normalize_tickets
    created,     \* first argument of calculate_resolution_time / argument of format_datetime
    resolved,    \* second argument of calculate_resolution_time
    shown,       \* outcome of format_datetime / calculate_resolution_time
    ai_output,   \* the AI output handed to the reformatters
    smart,       \* outcome of smart_format_ai_output of utils.py
    smart_admin, \* outcome of smart_format_ai_output of admin_app.py
    cleaned,     \* outcome of clean_and_format_ai_output
    invocation,  \* what lambda_client.invoke did: raised, or the payload text it delivered
    logged_in,   \* st.session_state.logged_in
    role,        \* st.session_state.role
    email,       \* st.session_state.email
    theme,       \* st.session_state.theme
    selected_ticket_id,  \* st.session_state.selected_ticket_id
    view,        \* the page the latest run of main() rendered
    entered,     \* the e-mail and password of the latest Sign In click
    session,     \* the other keys of st.session_state, written by user_app.py and admin_app.py
    screen,      \* what the latest run of the script put on the page, or the exception that ended it
    sent,        \* the arguments of the latest create_ticket call
    cached       \* the category and description the latest Check Resolution stored

vars == <<pc, response, unwrapped, status, ticket, ticket0, prev, calls, outcome,
          tickets, created, resolved, shown, ai_output, smart, smart_admin, cleaned,
          invocation, logged_in, role, email, theme, selected_ticket_id, view, entered,
          session, screen, sent, cached>>

unwrapVars == <<response, unwrapped>>
ticketVars == <<status, ticket, ticket0, prev, calls, outcome, tickets>>
timeVars   == <<created, resolved, shown>>
textVars   == <<ai_output, smart, smart_admin, cleaned>>
remoteVars == <<invocation>>
sessionVars == <<logged_in, role, email, theme, selected_ticket_id, view, entered,
                 session, screen, sent, cached>>

\* what the calls of one component leave alone
restOfUnwrap  == <<ticketVars, timeVars, textVars, remoteVars, sessionVars>>
restOfTicket  == <<unwrapVars, timeVars, textVars, remoteVars, sessionVars>>
restOfTime    == <<unwrapVars, ticketVars, textVars, remoteVars, sessionVars>>
restOfText    == <<unwrapVars, ticketVars, timeVars, remoteVars, sessionVars>>
restOfRemote  == <<ticketVars, timeVars, textVars, sessionVars>>
restOfSession == <<unwrapVars, ticketVars, timeVars, textVars, remoteVars>>

-----------------------------------------------------------------------------
(* Python values *)

None      == [t |-> "none", v |-> 0]
PyBool(b)   == [t |-> "bool", v |-> b]
PyInt(n)    == [t |-> "int",  v |-> n]
PyStr(s)    == [t |-> "str",  v |-> s]
PyList(s)   == [t |-> "list", v |-> s]
PyDict(f)   == [t |-> "dict", v |-> f]
PyDateTime(p) == [t |-> "datetime", v |-> p]

EmptyDict == PyDict(<<>>)
EmptyList == PyList(<<>>)

IsStr(x)  == x.t = "str"
IsDict(x) == x.t = "dict"
IsBool(x) == x.t = "bool"
IsList(x) == x.t = "list"

\* Python truthiness (bool(x)); a datetime is always truthy
Truthy(x) ==
    CASE x.t = "none" -> FALSE
      [] x.t = "bool" -> x.v
      [] x.t = "int"  -> x.v # 0
      [] x.t = "str"  -> x.v # <<>>
      [] x.t = "list" -> x.v # <<>>
      [] x.t = "dict" -> DOMAIN x.v # {}
      [] OTHER        -> TRUE

\* Outcomes of a call
NoExc == "none"
Return(x)  == [exc |-> NoExc, val |-> x]
Raise(e)   == [exc |-> e, val |-> None]
Pending    == [exc |-> "pending", val |-> None]
Returned(o) == o.exc = NoExc
Raised(o)   == o.exc \notin {NoExc, "pending"}

\* dict.get(key, default) and "key in dict"
HasKey(d, k) == k \in DOMAIN d.v
Get(d, k, default) == IF HasKey(d, k) THEN d.v[k] ELSE default

\* d[k] = x
SetItem(d, k, x) == PyDict([j \in (DOMAIN d.v) \cup {k} |-> IF j = k THEN x ELSE d.v[j]])

\* a setdefault that also replaces a present falsy value
SetDefaultFalsy(d, k, x) == IF HasKey(d, k) /\ Truthy(d.v[k]) THEN d ELSE SetItem(d, k, x)

\* dict.setdefault(k, x)
SetDefault(d, k, x) == IF HasKey(d, k) THEN d ELSE SetItem(d, k, x)

-----------------------------------------------------------------------------
(* Strings *)

Digits == <<"0", "1", "2", "3", "4", "5", "6", "7", "8", "9">>
IsDigit(c) == \E i \in 1..10 : Digits[i] = c
DigitVal(c) == (CHOOSE i \in 1..10 : Digits[i] = c) - 1
DigitChar(n) == Digits[n + 1]

\* s.startswith(p)
StartsWith(s, p) == Len(s) >= Len(p) /\ SubSeq(s, 1, Len(p)) = p
Drop(s, n) == SubSeq(s, n + 1, Len(s))

\* str(n) for a natural number, and for an integer
RECURSIVE NatToStr(_)
NatToStr(n) == IF n < 10 THEN <<DigitChar(n)>>
               ELSE NatToStr(n \div 10) \o <<DigitChar(n % 10)>>
IntToStr(n) == IF n < 0 THEN <<"-">> \o NatToStr(-n) ELSE NatToStr(n)

\* all strings over alphabet A of length at most n
RECURSIVE StringsUpTo(_, _)
StringsUpTo(A, n) ==
    IF n = 0 THEN {<<>>}
    ELSE LET S == StringsUpTo(A, n - 1)
         IN S \cup {Append(s, c) : s \in {x \in S : Len(x) = n - 1}, c \in A}

-----------------------------------------------------------------------------
(* json.loads, character by character.  Covered: objects, arrays, strings  *)
(* with the single-character escapes, integers, true / false / null and    *)
(* whitespace.  The inputs hold no fraction, exponent, \u escape, NaN or   *)
(* Infinity.                                                               *)

JsonWs == {" ", "\t", "\n", "\r"}

RECURSIVE SkipWs(_)
SkipWs(s) == IF s # <<>> /\ Head(s) \in JsonWs THEN SkipWs(Tail(s)) ELSE s

Fail == [ok |-> FALSE, val |-> None, rest |-> <<>>]
Ok(x, rest) == [ok |-> TRUE, val |-> x, rest |-> rest]

EscapeOf(c) ==
    CASE c = "\"" -> "\""
      [] c = "\\" -> "\\"
      [] c = "/"  -> "/"
      [] c = "n"  -> "\n"
      [] c = "t"  -> "\t"
      [] c = "r"  -> "\r"
      [] OTHER    -> ""

\* the characters after an opening quote, up to the closing quote
RECURSIVE ScanString(_, _)
ScanString(s, acc) ==
    IF s = <<>> THEN Fail
    ELSE IF Head(s) = "\"" THEN Ok(PyStr(acc), Tail(s))
    ELSE IF Head(s) \in {"\n", "\t", "\r"} THEN Fail
    ELSE IF Head(s) = "\\"
         THEN IF Len(s) < 2 \/ EscapeOf(s[2]) = "" THEN Fail
              ELSE ScanString(Drop(s, 2), Append(acc, EscapeOf(s[2])))
    ELSE ScanString(Tail(s), Append(acc, Head(s)))

RECURSIVE ScanDigits(_, _)
ScanDigits(s, n) ==
    IF s # <<>> /\ IsDigit(Head(s)) THEN ScanDigits(Tail(s), 10 * n + DigitVal(Head(s)))
    ELSE Ok(PyInt(n), s)

\* -?(0|[1-9][0-9]*)
ScanNumber(s) ==
    LET neg == s # <<>> /\ Head(s) = "-"
        u   == IF neg THEN Tail(s) ELSE s
        r   == IF u = <<>> \/ ~IsDigit(Head(u)) THEN Fail
               ELSE IF Head(u) = "0" THEN Ok(PyInt(0), Tail(u))
               ELSE ScanDigits(u, 0)
    IN IF r.ok /\ neg THEN Ok(PyInt(-r.val.v), r.rest) ELSE r

L_null  == <<"n", "u", "l", "l">>
L_true  == <<"t", "r", "u", "e">>
L_false == <<"f", "a", "l", "s", "e">>

RECURSIVE ScanValue(_)
RECURSIVE ScanMembers(_, _)
RECURSIVE ScanElements(_, _)

\* one JSON value at the start of s (no leading whitespace)
ScanValue(s) ==
    IF s = <<>> THEN Fail
    ELSE IF Head(s) = "\"" THEN ScanString(Tail(s), <<>>)
    ELSE IF Head(s) = "{"
         THEN LET u == SkipWs(Tail(s))
              IN IF u # <<>> /\ Head(u) = "}" THEN Ok(EmptyDict, Tail(u))
                 ELSE ScanMembers(u, EmptyDict)
    ELSE IF Head(s) = "["
         THEN LET u == SkipWs(Tail(s))
              IN IF u # <<>> /\ Head(u) = "]" THEN Ok(EmptyList, Tail(u))
                 ELSE ScanElements(u, <<>>)
    ELSE IF StartsWith(s, L_null)  THEN Ok(None, Drop(s, 4))
    ELSE IF StartsWith(s, L_true)  THEN Ok(PyBool(TRUE), Drop(s, 4))
    ELSE IF StartsWith(s, L_false) THEN Ok(PyBool(FALSE), Drop(s, 5))
    ELSE ScanNumber(s)

\* "key" : value (, "key" : value)* }   -- a repeated key keeps the last value
ScanMembers(s, d) ==
    IF s = <<>> \/ Head(s) # "\"" THEN Fail
    ELSE LET k == ScanString(Tail(s), <<>>)
         IN IF ~k.ok THEN Fail
            ELSE LET u == SkipWs(k.rest)
                 IN IF u = <<>> \/ Head(u) # ":" THEN Fail
                    ELSE LET x == ScanValue(SkipWs(Tail(u)))
                         IN IF ~x.ok THEN Fail
                            ELSE LET w  == SkipWs(x.rest)
                                     d2 == SetItem(d, k.val.v, x.val)
                                 IN IF w = <<>> THEN Fail
                                    ELSE IF Head(w) = "}" THEN Ok(d2, Tail(w))
                                    ELSE IF Head(w) = "," THEN ScanMembers(SkipWs(Tail(w)), d2)
                                    ELSE Fail

\* value (, value)* ]
ScanElements(s, acc) ==
    LET x == ScanValue(s)
    IN IF ~x.ok THEN Fail
       ELSE LET w == SkipWs(x.rest)
                a == Append(acc, x.val)
            IN IF w = <<>> THEN Fail
               ELSE IF Head(w) = "]" THEN Ok(PyList(a), Tail(w))
               ELSE IF Head(w) = "," THEN ScanElements(SkipWs(Tail(w)), a)
               ELSE Fail

\* json.loads(s): one value between optional whitespace, nothing after it
json_loads(s) ==
    LET r == ScanValue(SkipWs(s))
    IN IF r.ok /\ SkipWs(r.rest) = <<>> THEN Return(r.val) ELSE Raise("JSONDecodeError")

-----------------------------------------------------------------------------
(* parse_response_body *)

K_body == <<"b", "o", "d", "y">>

\* the body of the try block
ParseResponseBodyTry(r) ==
    IF ~IsDict(r) THEN Raise("AttributeError")          \* r.get does not exist
    ELSE LET body == Get(r, K_body, EmptyDict)
         IN IF IsStr(body) THEN json_loads(body.v)
            ELSE IF IsDict(body) THEN Return(body)
            ELSE Return(EmptyDict)

parse_response_body_no_except(r) == ParseResponseBodyTry(r)

parse_response_body(r) ==
    LET o == ParseResponseBodyTry(r)
    IN IF Returned(o) THEN o ELSE Return(EmptyDict)     \* except Exception: return {}

-----------------------------------------------------------------------------
(* Ticket keys and the literals of validate_status and normalize_ticket_data *)

K_id == <<"i", "d">>
K_title == <<"t", "i", "t", "l", "e">>
K_description == <<"d", "e", "s", "c", "r", "i", "p", "t", "i", "o", "n">>
K_user_email == <<"u", "s", "e", "r", "_", "e", "m", "a", "i", "l">>
K_category == <<"c", "a", "t", "e", "g", "o", "r", "y">>
K_status == <<"s", "t", "a", "t", "u", "s">>
K_created_at == <<"c", "r", "e", "a", "t", "e", "d", "_", "a", "t">>
K_updated_at == <<"u", "p", "d", "a", "t", "e", "d", "_", "a", "t">>
K_last_update == <<"l", "a", "s", "t", "_", "u", "p", "d", "a", "t", "e">>
K_resolved_at == <<"r", "e", "s", "o", "l", "v", "e", "d", "_", "a", "t">>
K_resolved_by == <<"r", "e", "s", "o", "l", "v", "e", "d", "_", "b", "y">>
K_similarity_score == <<"s", "i", "m", "i", "l", "a", "r", "i", "t", "y", "_", "s", "c", "o", "r", "e">>
K_attachments == <<"a", "t", "t", "a", "c", "h", "m", "e", "n", "t", "s">>
K_user_resolution_steps == <<"u", "s", "e", "r", "_", "r", "e", "s", "o", "l", "u", "t", "i", "o", "n", "_", "s", "t", "e", "p", "s">>
K_it_resolution_steps == <<"i", "t", "_", "r", "e", "s", "o", "l", "u", "t", "i", "o", "n", "_", "s", "t", "e", "p", "s">>

S_open == <<"o", "p", "e", "n">>
S_in_progress == <<"i", "n", "_", "p", "r", "o", "g", "r", "e", "s", "s">>
S_resolved == <<"r", "e", "s", "o", "l", "v", "e", "d">>
S_closed == <<"c", "l", "o", "s", "e", "d">>
S_Unknown == <<"U", "n", "k", "n", "o", "w", "n">>
S_Untitled == <<"U", "n", "t", "i", "t", "l", "e", "d">>
S_NoDescription == <<"N", "o", " ", "d", "e", "s", "c", "r", "i", "p", "t", "i", "o", "n", " ", "p", "r", "o", "v", "i", "d", "e", "d">>
S_UnknownUser == <<"U", "n", "k", "n", "o", "w", "n", " ", "U", "s", "e", "r">>
S_unknown == <<"u", "n", "k", "n", "o", "w", "n">>
S_NA == <<"N", "/", "A">>

\* validate_status
valid_statuses == <<PyStr(S_open), PyStr(S_in_progress), PyStr(S_resolved), PyStr(S_closed)>>

\* x in lst
In(x, lst) == \E i \in 1..Len(lst) : lst[i] = x

validate_status_unchecked(st) == st

validate_status(st) ==
    IF st = None \/ ~In(st, valid_statuses) THEN PyStr(S_open) ELSE st

\* the defaults of normalize_ticket_data, in the order of the dict literal
defaults ==
    << <<K_id, PyStr(S_Unknown)>>,
       <<K_title, PyStr(S_Untitled)>>,
       <<K_description, PyStr(S_NoDescription)>>,
       <<K_user_email, PyStr(S_UnknownUser)>>,
       <<K_category, PyStr(S_unknown)>>,
       <<K_status, PyStr(S_open)>>,
       <<K_created_at, PyStr(S_NA)>>,
       <<K_updated_at, PyStr(S_NA)>>,
       <<K_last_update, PyStr(S_NA)>>,
       <<K_resolved_at, None>>,
       <<K_resolved_by, None>>,
       <<K_similarity_score, PyInt(0)>>,
       <<K_attachments, EmptyList>>,
       <<K_user_resolution_steps, PyStr(<<>>)>>,
       <<K_it_resolution_steps, PyStr(<<>>)>> >>

\* for key, default_value in defaults.items(): ticket.setdefault(key, default_value)
RECURSIVE InjectDefaults(_, _)
InjectDefaults(t, i) ==
    IF i > Len(defaults) THEN t
    ELSE InjectDefaults(SetDefault(t, defaults[i][1], defaults[i][2]), i + 1)

NormalizeStatusSkipped(t) == t

\* ticket["status"] = validate_status(ticket["status"])
NormalizeStatus(t) == SetItem(t, K_status, validate_status(t.v[K_status]))

FixResolvedAtNegate(t) ==
    IF IsBool(t.v[K_resolved_at]) THEN SetItem(t, K_resolved_at, PyBool(~t.v[K_resolved_at].v))
    ELSE t

FixResolvedAtTrueOnly(t) ==
    IF t.v[K_resolved_at] = PyBool(TRUE) THEN SetItem(t, K_resolved_at, None) ELSE t

\* if isinstance(ticket["resolved_at"], bool): ticket["resolved_at"] = None
FixResolvedAt(t) ==
    IF IsBool(t.v[K_resolved_at]) THEN SetItem(t, K_resolved_at, None) ELSE t

normalize_ticket_data(t) ==
    IF ~IsDict(t) THEN Raise("AttributeError")           \* t.setdefault does not exist
    ELSE Return(FixResolvedAt(NormalizeStatus(InjectDefaults(t, 1))))

\* normalize_tickets: the loop over "ticket_list or []".  Iterating a str or a
\* dict hands str elements to normalize_ticket_data; an int or True is not iterable.
RECURSIVE NormalizeEach(_, _, _)
NormalizeEach(lst, i, out) ==
    IF i > Len(lst) THEN Return(PyList(out))
    ELSE LET o == normalize_ticket_data(lst[i])
         IN IF Returned(o) THEN NormalizeEach(lst, i + 1, Append(out, o.val)) ELSE o

normalize_tickets(tl) ==
    IF ~Truthy(tl) THEN Return(EmptyList)
    ELSE IF IsList(tl) THEN NormalizeEach(tl.v, 1, <<>>)
    ELSE IF IsStr(tl) \/ IsDict(tl) THEN Raise("AttributeError")
    ELSE Raise("TypeError")

-----------------------------------------------------------------------------
(* Timestamps: parse_iso, format_datetime, calculate_resolution_time.      *)
(* datetime.fromisoformat is modelled on the extended format               *)
(* YYYY-MM-DD[*HH[:MM[:SS]]][(+|-)HH:MM[:SS]], on which every Python       *)
(* version that has the function agrees; the inputs hold no fraction of a  *)
(* second and no basic-format or week date.                                *)

\* s.replace(c, "")
RECURSIVE RemoveChar(_, _)
RemoveChar(s, c) ==
    IF s = <<>> THEN <<>>
    ELSE IF Head(s) = c THEN RemoveChar(Tail(s), c)
    ELSE <<Head(s)>> \o RemoveChar(Tail(s), c)

AllDigits(s) == \A i \in 1..Len(s) : IsDigit(s[i])

RECURSIVE DigitsToNat(_, _)
DigitsToNat(s, n) ==
    IF s = <<>> THEN n ELSE DigitsToNat(Tail(s), 10 * n + DigitVal(Head(s)))

\* s.find(c) + 1: the position of the first c, 0 when there is none
Find(s, c) == IF \E i \in 1..Len(s) : s[i] = c
              THEN CHOOSE i \in 1..Len(s) : s[i] = c /\ \A j \in 1..(i - 1) : s[j] # c
              ELSE 0

IsLeap(y) == y % 4 = 0 /\ (y % 100 # 0 \/ y % 400 = 0)
MonthLengths == <<31, 28, 31, 30, 31, 30, 31, 31, 30, 31, 30, 31>>
DaysInMonth(y, m) == IF m = 2 /\ IsLeap(y) THEN 29 ELSE MonthLengths[m]

RECURSIVE DaysBeforeMonth(_, _)
DaysBeforeMonth(y, m) == IF m = 1 THEN 0 ELSE DaysBeforeMonth(y, m - 1) + DaysInMonth(y, m - 1)

\* days from 0001-01-01, counting that day as 1 (date.toordinal)
Ordinal(y, m, d) ==
    LET p == y - 1
    IN p * 365 + p \div 4 - p \div 100 + p \div 400 + DaysBeforeMonth(y, m) + d

NoTime == [ok |-> FALSE, h |-> 0, mi |-> 0, s |-> 0]

\* HH[:MM[:SS]]
ParseHhMmSs(t) ==
    IF /\ Len(t) \in {2, 5, 8}
       /\ \A i \in 1..Len(t) : IF i \in {3, 6} THEN t[i] = ":" ELSE IsDigit(t[i])
    THEN [ok |-> TRUE,
          h  |-> DigitsToNat(SubSeq(t, 1, 2), 0),
          mi |-> IF Len(t) >= 5 THEN DigitsToNat(SubSeq(t, 4, 5), 0) ELSE 0,
          s  |-> IF Len(t) >= 8 THEN DigitsToNat(SubSeq(t, 7, 8), 0) ELSE 0]
    ELSE NoTime

NoClock == [ok |-> FALSE, h |-> 0, mi |-> 0, s |-> 0, aware |-> FALSE, off |-> 0]

Clock(tm, aware, off) ==
    [ok |-> TRUE, h |-> tm.h, mi |-> tm.mi, s |-> tm.s, aware |-> aware, off |-> off]

\* the offset starts at the first "-" or, when there is none, at the first "+"
TzPos(minus, plus) == IF minus > 0 THEN minus ELSE plus

\* the offset in seconds must stay within a day
ClockWithOffset(tm, tz, mag, sign) ==
    IF ~tm.ok \/ ~tz.ok \/ mag >= 86400 THEN NoClock
    ELSE Clock(tm, TRUE, IF sign = "-" THEN -mag ELSE mag)

OffsetSeconds(tz) == tz.h * 3600 + tz.mi * 60 + tz.s

ParseOffset(tzstr) == IF Len(tzstr) \in {5, 8} THEN ParseHhMmSs(tzstr) ELSE NoTime

ClockOf(tm) == IF tm.ok THEN Clock(tm, FALSE, 0) ELSE NoClock

SplitIsoTime(t, tzpos) ==
    IF tzpos = 0 THEN ClockOf(ParseHhMmSs(t))
    ELSE ClockWithOffset(ParseHhMmSs(SubSeq(t, 1, tzpos - 1)), ParseOffset(Drop(t, tzpos)),
                         OffsetSeconds(ParseOffset(Drop(t, tzpos))), t[tzpos])

\* the part after the date separator: a time, then an optional UTC offset
ParseIsoTime(t) ==
    IF Len(t) < 2 THEN NoClock ELSE SplitIsoTime(t, TzPos(Find(t, "-"), Find(t, "+")))

Midnight == [ok |-> TRUE, h |-> 0, mi |-> 0, s |-> 0, aware |-> FALSE, off |-> 0]

\* YYYY-MM-DD
DateShape(s) ==
    /\ AllDigits(SubSeq(s, 1, 4)) /\ s[5] = "-"
    /\ AllDigits(SubSeq(s, 6, 7)) /\ s[8] = "-"
    /\ AllDigits(SubSeq(s, 9, 10))

\* the range checks of the datetime constructor
BuildDateTime(y, m, d, ck) ==
    IF /\ ck.ok
       /\ y >= 1 /\ m \in 1..12 /\ d >= 1 /\ d <= DaysInMonth(y, m)
       /\ ck.h <= 23 /\ ck.mi <= 59 /\ ck.s <= 59
    THEN Return(PyDateTime([y |-> y, m |-> m, d |-> d, h |-> ck.h, mi |-> ck.mi,
                            s |-> ck.s, aware |-> ck.aware, off |-> ck.off]))
    ELSE Raise("ValueError")

\* datetime.fromisoformat(s): a date, then any one character and a time
fromisoformat(s) ==
    IF Len(s) < 10 \/ ~DateShape(s) THEN Raise("ValueError")
    ELSE BuildDateTime(DigitsToNat(SubSeq(s, 1, 4), 0), DigitsToNat(SubSeq(s, 6, 7), 0),
                       DigitsToNat(SubSeq(s, 9, 10), 0),
                       IF Len(s) = 10 THEN Midnight ELSE ParseIsoTime(Drop(s, 11)))

\* except Exception: return None
ValueOrNone(o) == IF Returned(o) THEN o.val ELSE None

parse_iso(x) ==
    IF ~Truthy(x) \/ ~IsStr(x) THEN None
    ELSE ValueOrNone(fromisoformat(RemoveChar(x.v, "Z")))

MonthAbbr == << <<"J", "a", "n">>, <<"F", "e", "b">>, <<"M", "a", "r">>, <<"A", "p", "r">>,
                <<"M", "a", "y">>, <<"J", "u", "n">>, <<"J", "u", "l">>, <<"A", "u", "g">>,
                <<"S", "e", "p">>, <<"O", "c", "t">>, <<"N", "o", "v">>, <<"D", "e", "c">> >>

TwoDigit(n) == <<DigitChar(n \div 10), DigitChar(n % 10)>>

Hour12(h) == IF h % 12 = 0 THEN 12 ELSE h % 12

\* dt.strftime("%d %b %Y, %I:%M %p"); glibc's %Y does not pad the year
strftime(dt) ==
    TwoDigit(dt.d) \o <<" ">> \o MonthAbbr[dt.m] \o <<" ">> \o NatToStr(dt.y)
    \o <<",", " ">> \o TwoDigit(Hour12(dt.h)) \o <<":">> \o TwoDigit(dt.mi) \o <<" ">>
    \o (IF dt.h < 12 THEN <<"A", "M">> ELSE <<"P", "M">>)

FormatParsedUnguarded(dt) ==
    IF dt = None THEN Raise("AttributeError") ELSE Return(PyStr(strftime(dt.v)))

\* if not dt: return "N/A"; return dt.strftime(...)
FormatParsed(dt) ==
    IF ~Truthy(dt) THEN Return(PyStr(S_NA)) ELSE Return(PyStr(strftime(dt.v)))

format_datetime(x) == FormatParsed(parse_iso(x))

\* seconds since midnight, in UTC for an aware datetime
SecondOfDay(dt) == dt.h * 3600 + dt.mi * 60 + dt.s - dt.off

\* (end - start).total_seconds(): whole days and seconds of the timedelta;
\* subtracting an aware and a naive datetime raises TypeError
Subtract(end, start) ==
    IF end.aware # start.aware THEN Raise("TypeError")
    ELSE Return(PyInt((Ordinal(end.y, end.m, end.d) - Ordinal(start.y, start.m, start.d)) * 86400
                      + SecondOfDay(end) - SecondOfDay(start)))

DurationText(hours, minutes) ==
    IntToStr(hours) \o <<"h", " ">> \o IntToStr(minutes) \o <<"m">>

ResolutionTimeClamped(sec) ==
    IF sec < 0 THEN DurationText(0, 0)
    ELSE DurationText(sec \div 3600, (sec % 3600) \div 60)

\* hours = s // 3600; minutes = (s % 3600) // 60; f"{int(hours)}h {int(minutes)}m"
ResolutionTime(sec) == DurationText(sec \div 3600, (sec % 3600) \div 60)

RenderDifference(diff) ==
    IF Returned(diff) THEN Return(PyStr(ResolutionTime(diff.val.v))) ELSE diff

\* if not start or not end: return "N/A"
ResolutionBetween(start, end) ==
    IF ~Truthy(start) \/ ~Truthy(end) THEN Return(PyStr(S_NA))
    ELSE RenderDifference(Subtract(end.v, start.v))

calculate_resolution_time(c, r) == ResolutionBetween(parse_iso(c), parse_iso(r))

-----------------------------------------------------------------------------
(* Inputs of parse_response_body *)

MaxBodyLen == 3

JsonAlphabet == {"{", "}", "[", "]", "\"", ":", "1", "k"}

S_obj_k1      == <<"{", "\"", "k", "\"", ":", "1", "}">>                       \* {"k":1}
S_obj_spaced  == <<" ", "{", " ", "\"", "k", "\"", " ", ":", " ", "1", " ", "}", "\n">>
S_obj_two     == <<"{", "\"", "k", "\"", ":", "1", ",", "\"", "j", "\"", ":", "[", "]", "}">>
S_obj_dup     == <<"{", "\"", "k", "\"", ":", "1", ",", "\"", "k", "\"", ":", "0", "}">>
S_obj_nested  == <<"{", "\"", "k", "\"", ":", "{", "\"", "k", "\"", ":", "n", "u", "l", "l", "}", "}">>
S_obj_comma   == <<"{", "\"", "k", "\"", ":", "1", ",", "}">>                  \* {"k":1,}
S_obj_nokey   == <<"{", "k", ":", "1", "}">>                                   \* {k:1}
S_obj_open    == <<"{", "\"", "k", "\"", ":", "1">>                            \* {"k":1
S_obj_extra   == <<"{", "}", "{", "}">>                                        \* {}{}
S_list_two    == <<"[", "1", ",", " ", "-", "1", "2", "]">>                    \* [1, -12]
S_null        == <<"n", "u", "l", "l">>
S_true        == <<"t", "r", "u", "e">>
S_false       == <<"f", "a", "l", "s", "e">>
S_zero_one    == <<"0", "1">>                                                  \* 01
S_minus       == <<"-">>
S_escaped     == <<"\"", "\\", "n", "\"">>                                     \* "\n"
S_text        == <<"o", "k">>                                                  \* ok

BodySamples == {S_obj_k1, S_obj_spaced, S_obj_two, S_obj_dup, S_obj_nested, S_obj_comma,
                S_obj_nokey, S_obj_open, S_obj_extra, S_list_two, S_null, S_true,
                S_false, S_zero_one, S_minus, S_escaped, S_text}

BodyStrings == StringsUpTo(JsonAlphabet, MaxBodyLen) \cup BodySamples

K_k          == <<"k">>
K_j          == <<"j">>
K_statusCode == <<"s", "t", "a", "t", "u", "s", "C", "o", "d", "e">>
K_error      == <<"e", "r", "r", "o", "r">>

BodyValues ==
    {None, PyInt(0), PyInt(7), PyBool(TRUE), PyBool(FALSE), EmptyList,
     PyList(<<EmptyDict>>), EmptyDict, PyDict(K_k :> PyInt(1)),
     PyDict(K_body :> PyStr(S_obj_k1))}
    \cup {PyStr(s) : s \in BodyStrings}

Responses ==
    {None, PyStr(<<>>), PyStr(S_obj_k1), EmptyList, PyList(<<EmptyDict>>), PyInt(1),
     PyBool(TRUE), EmptyDict, PyDict(K_error :> PyStr(S_text))}
    \cup {PyDict(K_body :> b) : b \in BodyValues}
    \cup {PyDict((K_body :> b) @@ (K_statusCode :> PyInt(200))) : b \in BodyValues}

-----------------------------------------------------------------------------
(* Values the variables of the other components hold while one runs *)

IdleUnwrap == response = None /\ unwrapped = Pending
IdleTicket == /\ status = None /\ ticket = None /\ ticket0 = None /\ prev = None /\ calls = 0
              /\ outcome = Pending /\ tickets = None
IdleTime   == created = None /\ resolved = None /\ shown = Pending
IdleText   == ai_output = None /\ smart = Pending /\ smart_admin = Pending /\ cleaned = Pending
IdleRemote == invocation = Pending
IdleSession == /\ logged_in = FALSE /\ role = None /\ email = None /\ theme = "light"
               /\ selected_ticket_id = None /\ view = "none" /\ entered = None
               /\ session = EmptyDict /\ screen = "none" /\ sent = None /\ cached = None

-----------------------------------------------------------------------------
(* The response envelope unwrapper: one call per interaction *)

InitUnwrap ==
    /\ pc = "unwrap"
    /\ response \in Responses
    /\ unwrapped = Pending
    /\ IdleTicket /\ IdleTime /\ IdleText /\ IdleRemote /\ IdleSession

ParseResponseBody ==
    /\ pc = "unwrap"
    /\ unwrapped' = parse_response_body(response)
    /\ pc' = "unwrapped"
    /\ UNCHANGED <<response, restOfUnwrap>>

NextUnwrap == ParseResponseBody

SpecUnwrap == InitUnwrap /\ [][NextUnwrap]_vars

Body == Get(response, K_body, EmptyDict)

\* C1: for every mapping r, parse_response_body(r) does not raise and its result
\* is a mapping (possibly empty).
C1_ResultIsMapping ==
    (pc = "unwrapped" /\ IsDict(response)) =>
        (Returned(unwrapped) /\ IsDict(unwrapped.val))

\* the value each sample body decodes to, written out by hand
JsonExpected ==
    {<<S_obj_k1, PyDict(K_k :> PyInt(1))>>,
     <<S_obj_spaced, PyDict(K_k :> PyInt(1))>>,
     <<S_obj_two, PyDict((K_k :> PyInt(1)) @@ (K_j :> EmptyList))>>,
     <<S_obj_dup, PyDict(K_k :> PyInt(0))>>,
     <<S_obj_nested, PyDict(K_k :> PyDict(K_k :> None))>>,
     <<S_list_two, PyList(<<PyInt(1), PyInt(-12)>>)>>,
     <<S_null, None>>, <<S_true, PyBool(TRUE)>>, <<S_false, PyBool(FALSE)>>,
     <<S_escaped, PyStr(<<"\n">>)>>,
     <<S_obj_comma, EmptyDict>>, <<S_obj_nokey, EmptyDict>>, <<S_obj_open, EmptyDict>>,
     <<S_obj_extra, EmptyDict>>, <<S_zero_one, EmptyDict>>, <<S_minus, EmptyDict>>,
     <<S_text, EmptyDict>>}

\* C2: the result by case: no body key gives {}; a body that is a mapping is
\* returned unchanged; a body string that parses as JSON gives the parsed value;
\* a body string that does not parse, a body of any other shape, or a response
\* that is not a mapping gives {}.
C2_UnwrapByCase ==
    pc = "unwrapped" =>
        /\ Returned(unwrapped)
        /\ ~IsDict(response) => unwrapped.val = EmptyDict
        /\ (IsDict(response) /\ ~HasKey(response, K_body)) => unwrapped.val = EmptyDict
        /\ (IsDict(response) /\ HasKey(response, K_body)) =>
              /\ IsDict(Body) => unwrapped.val = Body
              /\ (IsStr(Body) /\ Returned(json_loads(Body.v))) =>
                     unwrapped.val = json_loads(Body.v).val
              /\ (IsStr(Body) /\ ~Returned(json_loads(Body.v))) => unwrapped.val = EmptyDict
              /\ (~IsStr(Body) /\ ~IsDict(Body)) => unwrapped.val = EmptyDict
              /\ \A e \in JsonExpected : Body = PyStr(e[1]) => unwrapped.val = e[2]

\* a body string that decodes to a non-empty mapping has been unwrapped
C2_Witness ==
    /\ pc = "unwrapped"
    /\ IsDict(response) /\ Body = PyStr(S_obj_two)
    /\ unwrapped = Return(PyDict((K_k :> PyInt(1)) @@ (K_j :> EmptyList)))

-----------------------------------------------------------------------------
(* Inputs of validate_status, normalize_ticket_data and normalize_tickets *)

MaxStatusLen == 4
MaxCalls     == 2
MaxListLen   == 2

StatusAlphabet == {"o", "p", "e", "n"}

S_bogus     == <<"b", "o", "g", "u", "s">>
S_OPEN      == <<"O", "P", "E", "N">>
S_open_sp   == <<"o", "p", "e", "n", " ">>
S_timestamp == <<"2", "0", "2", "4", "-", "0", "1", "-", "0", "1", "T",
                 "1", "0", ":", "0", "0", ":", "0", "0">>
K_priority  == <<"p", "r", "i", "o", "r", "i", "t", "y">>

StatusInputs ==
    {None, PyInt(0), PyInt(1), PyBool(TRUE), PyBool(FALSE), EmptyList, EmptyDict,
     PyList(<<PyStr(S_open)>>), PyStr(S_in_progress), PyStr(S_resolved), PyStr(S_closed),
     PyStr(S_bogus), PyStr(S_OPEN), PyStr(S_open_sp)}
    \cup {PyStr(x) : x \in StringsUpTo(StatusAlphabet, MaxStatusLen)}

\* a key left out of a ticket
Absent == [t |-> "absent", v |-> 0]

\* the dict holding the pairs <<key, value>> of ps whose value is not Absent
MakeDict(ps) ==
    LET present == {i \in 1..Len(ps) : ps[i][2] # Absent}
    IN PyDict([k \in {ps[i][1] : i \in present} |->
                   ps[CHOOSE i \in present : ps[i][1] = k][2]])

StatusChoices ==
    {Absent, None, PyInt(1), PyBool(TRUE), PyStr(<<>>), PyStr(S_open), PyStr(S_in_progress),
     PyStr(S_resolved), PyStr(S_closed), PyStr(S_bogus), PyStr(S_OPEN)}
ResolvedAtChoices ==
    {Absent, None, PyBool(TRUE), PyBool(FALSE), PyInt(0), PyStr(<<>>), PyStr(S_timestamp)}
TitleChoices == {Absent, None, PyStr(<<>>), PyStr(S_text)}
IdChoices    == {Absent, PyInt(0), PyStr(S_text)}
ExtraChoices == {Absent, PyStr(S_text)}

\* every default key present, all holding the same value
Uniform(x) == PyDict([k \in {defaults[i][1] : i \in 1..Len(defaults)} |-> x])

TicketDicts ==
    {MakeDict(<<<<K_status, st>>, <<K_resolved_at, ra>>, <<K_title, ti>>, <<K_id, id>>,
                <<K_priority, ex>>>>) :
        st \in StatusChoices, ra \in ResolvedAtChoices, ti \in TitleChoices,
        id \in IdChoices, ex \in ExtraChoices}
    \cup {Uniform(None), Uniform(PyStr(<<>>)), Uniform(PyBool(FALSE)), Uniform(PyStr(S_closed))}

NonDicts == {None, PyStr(<<>>), PyStr(S_text), PyInt(0), PyInt(1), PyBool(FALSE), EmptyList,
             PyList(<<EmptyDict>>)}

TicketInputs == TicketDicts \cup NonDicts

ListElements ==
    {EmptyDict, PyDict(K_status :> PyStr(S_bogus)), PyDict(K_resolved_at :> PyBool(TRUE)),
     None, PyStr(S_text)}

RECURSIVE ListsUpTo(_, _)
ListsUpTo(E, n) ==
    IF n = 0 THEN {<<>>}
    ELSE LET S == ListsUpTo(E, n - 1)
         IN S \cup {Append(l, e) : l \in {x \in S : Len(x) = n - 1}, e \in E}

TicketLists ==
    {PyList(l) : l \in ListsUpTo(ListElements, MaxListLen)}
    \cup {None, PyInt(0), PyInt(3), PyBool(FALSE), PyBool(TRUE), PyStr(<<>>), PyStr(S_text),
          EmptyDict, PyDict(K_k :> PyInt(1))}

-----------------------------------------------------------------------------
(* The status validator and the ticket normalizer *)

InitTicket ==
    /\ pc \in {"status", "ticket", "list"}
    /\ status  \in IF pc = "status" THEN StatusInputs ELSE {None}
    /\ ticket  \in IF pc = "ticket" THEN TicketInputs ELSE {None}
    /\ tickets \in IF pc = "list"   THEN TicketLists  ELSE {None}
    /\ ticket0 = ticket
    /\ prev = ticket
    /\ calls = 0
    /\ outcome = Pending
    /\ IdleUnwrap /\ IdleTime /\ IdleText /\ IdleRemote /\ IdleSession

ValidateStatus ==
    /\ pc = "status"
    /\ outcome' = Return(validate_status(status))
    /\ pc' = "status_done"
    /\ UNCHANGED <<status, ticket, ticket0, prev, calls, tickets, restOfTicket>>

\* one call on the ticket object; the object keeps what the call did to it
NormalizeTicketData ==
    /\ pc = "ticket"
    /\ calls < MaxCalls
    /\ LET o == normalize_ticket_data(ticket)
       IN /\ outcome' = o
          /\ ticket' = IF Returned(o) THEN o.val ELSE ticket
          /\ pc' = IF Returned(o) THEN "ticket" ELSE "raised"
    /\ prev' = ticket
    /\ calls' = calls + 1
    /\ UNCHANGED <<status, ticket0, tickets, restOfTicket>>

\* the elements reached before an exception are normalized in place
NormalizedInPlace(l) ==
    [i \in 1..Len(l) |->
        IF \A j \in 1..i : IsDict(l[j]) THEN normalize_ticket_data(l[i]).val ELSE l[i]]

NormalizeTickets ==
    /\ pc = "list"
    /\ outcome' = normalize_tickets(tickets)
    /\ tickets' = IF IsList(tickets) THEN PyList(NormalizedInPlace(tickets.v)) ELSE tickets
    /\ ticket0' = tickets
    /\ pc' = "list_done"
    /\ UNCHANGED <<status, ticket, prev, calls, restOfTicket>>

NextTicket == ValidateStatus \/ NormalizeTicketData \/ NormalizeTickets

SpecTicket == InitTicket /\ [][NextTicket]_vars

ValidStatusValues == {PyStr(S_open), PyStr(S_in_progress), PyStr(S_resolved), PyStr(S_closed)}
DefaultKeys == {K_id, K_title, K_description, K_user_email, K_category, K_status,
                K_created_at, K_updated_at, K_last_update, K_resolved_at, K_resolved_by,
                K_similarity_score, K_attachments, K_user_resolution_steps,
                K_it_resolution_steps}

\* a state reached by a normalize_ticket_data call that returned
Normalized == pc = "ticket" /\ calls >= 1 /\ Returned(outcome)

\* C3: validate_status is total: its result is one of open, in_progress, resolved,
\* closed; a member of that set is returned as is, every other value maps to open.
C3_ValidateStatusTotal ==
    pc = "status_done" =>
        /\ Returned(outcome)
        /\ outcome.val \in ValidStatusValues
        /\ status \in ValidStatusValues => outcome.val = status
        /\ status \notin ValidStatusValues => outcome.val = PyStr(S_open)

\* an invalid string and a valid one have each been validated
C3_Witness ==
    /\ pc = "status_done"
    /\ status = PyStr(<<"o", "p", "e">>)
    /\ outcome = Return(PyStr(S_open))

\* C4: after normalize_ticket_data(t) every key of the default set is present, and
\* every key already present in t keeps its value (also a falsy one), except an
\* invalid status and a boolean resolved_at; keys outside the default set are untouched.
C4_DefaultsInjected ==
    (Normalized /\ IsDict(ticket0)) =>
        /\ DOMAIN ticket.v = DOMAIN ticket0.v \cup DefaultKeys
        /\ \A k \in DOMAIN ticket0.v :
              \/ ticket.v[k] = ticket0.v[k]
              \/ k = K_status /\ ticket0.v[k] \notin ValidStatusValues
              \/ k = K_resolved_at /\ IsBool(ticket0.v[k])

\* a ticket with an empty title, an extra key and no id has been normalized
C4_Witness ==
    /\ Normalized
    /\ IsDict(ticket0)
    /\ HasKey(ticket0, K_title) /\ ticket0.v[K_title] = PyStr(<<>>)
    /\ HasKey(ticket0, K_priority) /\ ~HasKey(ticket0, K_id)
    /\ ticket.v[K_title] = PyStr(<<>>) /\ ticket.v[K_priority] = PyStr(S_text)
    /\ ticket.v[K_id] = PyStr(S_Unknown)

\* C5: normalize_ticket_data is idempotent: a second call on a normalized ticket
\* leaves every field as the first call left it.
C5_Idempotent ==
    (Normalized /\ calls >= 2) => ticket = prev

\* a ticket whose status and resolved_at were both repaired has been normalized twice
C5_Witness ==
    /\ Normalized /\ calls >= 2
    /\ IsDict(ticket0)
    /\ HasKey(ticket0, K_status) /\ ticket0.v[K_status] = PyStr(S_bogus)
    /\ HasKey(ticket0, K_resolved_at) /\ ticket0.v[K_resolved_at] = PyBool(TRUE)
    /\ ticket # ticket0

\* C6: after normalize_ticket_data status is one of the four names: an absent or
\* invalid status becomes open and a valid one is kept.
C6_StatusValid ==
    (Normalized /\ IsDict(ticket0)) =>
        /\ ticket.v[K_status] \in ValidStatusValues
        /\ IF HasKey(ticket0, K_status) /\ ticket0.v[K_status] \in ValidStatusValues
           THEN ticket.v[K_status] = ticket0.v[K_status]
           ELSE ticket.v[K_status] = PyStr(S_open)

\* a present but invalid status has been repaired
C6_Witness ==
    /\ Normalized /\ IsDict(ticket0)
    /\ HasKey(ticket0, K_status) /\ ticket0.v[K_status] = PyStr(S_OPEN)
    /\ ticket.v[K_status] = PyStr(S_open)

\* C7: after normalize_ticket_data resolved_at is never a boolean: true or false
\* is replaced by null, any other present value is left as it is.
C7_ResolvedAtNotBool ==
    (Normalized /\ IsDict(ticket0)) =>
        /\ ~IsBool(ticket.v[K_resolved_at])
        /\ (HasKey(ticket0, K_resolved_at) /\ IsBool(ticket0.v[K_resolved_at])) =>
               ticket.v[K_resolved_at] = None
        /\ (HasKey(ticket0, K_resolved_at) /\ ~IsBool(ticket0.v[K_resolved_at])) =>
               ticket.v[K_resolved_at] = ticket0.v[K_resolved_at]

\* a resolved_at of false has been replaced by null
C7_Witness ==
    /\ Normalized /\ IsDict(ticket0)
    /\ HasKey(ticket0, K_resolved_at) /\ ticket0.v[K_resolved_at] = PyBool(FALSE)
    /\ ticket.v[K_resolved_at] = None

\* the record normalize_ticket_data builds from an empty mapping
DefaultRecord ==
    PyDict([k \in DefaultKeys |-> defaults[CHOOSE i \in 1..Len(defaults) : defaults[i][1] = k][2]])

\* C8: normalize_ticket_data never fails: for null, a non-mapping value or an empty
\* mapping it returns the full default record, and normalize_tickets does the same
\* for every element of its list.
C8_NeverFails ==
    /\ (pc \in {"ticket", "raised"} /\ calls >= 1) =>
          /\ Returned(outcome)
          /\ (~IsDict(ticket0) \/ ticket0 = EmptyDict) => outcome.val = DefaultRecord
    /\ (pc = "list_done" /\ IsList(ticket0)) =>
          /\ Returned(outcome)
          /\ Len(outcome.val.v) = Len(ticket0.v)

-----------------------------------------------------------------------------
(* Inputs of format_datetime and calculate_resolution_time *)

S_base      == <<"2", "0", "2", "4", "-", "0", "2", "-", "2", "9", "T", "1", "3", ":", "3", "0", ":", "0", "0">>
S_base_off  == <<"2", "0", "2", "4", "-", "0", "2", "-", "2", "9", "T", "1", "3", ":", "3", "0", ":", "0", "0", "+", "0", "5", ":", "3", "0">>
S_not_date  == <<"n", "o", "t", "-", "a", "-", "d", "a", "t", "e">>

PerturbAlphabet == {"0", "1", "3", "9", "-", ":", "T", " ", "Z", "x", "+"}

Prefixes(s) == {SubSeq(s, 1, n) : n \in 0..Len(s)}

\* S_base with one "Z" put in front of, inside or behind it
Inserted == {SubSeq(S_base, 1, i) \o <<"Z">> \o Drop(S_base, i) : i \in 0..Len(S_base)}

\* S_base with one character replaced
Perturbed == {[S_base EXCEPT ![i] = c] : i \in 1..Len(S_base), c \in PerturbAlphabet}

FourDigit(n) == <<DigitChar(n \div 1000), DigitChar((n \div 100) % 10),
                  DigitChar((n \div 10) % 10), DigitChar(n % 10)>>

\* the text YYYY-MM-DDTHH:MM:SS of a date <<y, m, d>> and a clock <<h, mi, s>>
Iso(d, c) ==
    FourDigit(d[1]) \o <<"-">> \o TwoDigit(d[2]) \o <<"-">> \o TwoDigit(d[3]) \o <<"T">>
    \o TwoDigit(c[1]) \o <<":">> \o TwoDigit(c[2]) \o <<":">> \o TwoDigit(c[3])

Dates  == {<<2023, 12, 31>>, <<2024, 1, 1>>, <<2024, 2, 28>>, <<2024, 2, 29>>,
           <<2024, 3, 1>>, <<2023, 2, 29>>}
Clocks == {<<0, 0, 0>>, <<10, 0, 0>>, <<10, 0, 1>>, <<13, 30, 0>>, <<23, 59, 59>>}

Stamps == {Iso(d, c) : d \in Dates, c \in Clocks}

NonStamps == {None, PyInt(0), PyInt(20240101), PyBool(TRUE), PyBool(FALSE), EmptyList,
              PyList(<<PyStr(S_base)>>), EmptyDict, PyStr(<<>>), PyStr(S_NA), PyStr(S_not_date)}

\* the display text of sample inputs, written out
FormatExpected ==
    {<<None, S_NA>>, <<PyInt(20240101), S_NA>>, <<PyBool(TRUE), S_NA>>,
     <<PyStr(<<>>), S_NA>>, <<PyStr(S_not_date), S_NA>>, <<EmptyList, S_NA>>,
     <<PyStr(<<"2", "0", "2", "4", "-", "0", "2", "-", "2", "9", "T", "1", "3", ":", "3", "0", ":", "0", "0">>),
       <<"2", "9", " ", "F", "e", "b", " ", "2", "0", "2", "4", ",", " ", "0", "1", ":", "3", "0", " ", "P", "M">>>>,
     <<PyStr(<<"2", "0", "2", "4", "-", "0", "1", "-", "0", "1", "T", "0", "0", ":", "0", "0", ":", "0", "0">>),
       <<"0", "1", " ", "J", "a", "n", " ", "2", "0", "2", "4", ",", " ", "1", "2", ":", "0", "0", " ", "A", "M">>>>,
     <<PyStr(<<"2", "0", "2", "4", "-", "0", "1", "-", "0", "1", "T", "1", "0", ":", "0", "0", ":", "0", "1", "Z">>),
       <<"0", "1", " ", "J", "a", "n", " ", "2", "0", "2", "4", ",", " ", "1", "0", ":", "0", "0", " ", "A", "M">>>>,
     <<PyStr(<<"2", "0", "2", "4", "-", "0", "2", "-", "2", "9">>),
       <<"2", "9", " ", "F", "e", "b", " ", "2", "0", "2", "4", ",", " ", "1", "2", ":", "0", "0", " ", "A", "M">>>>,
     <<PyStr(<<"2", "0", "2", "4", "-", "0", "2", "-", "2", "9", "T", "1", "3", ":", "3", "0", ":", "0", "0", "+", "0", "5", ":", "3", "0">>),
       <<"2", "9", " ", "F", "e", "b", " ", "2", "0", "2", "4", ",", " ", "0", "1", ":", "3", "0", " ", "P", "M">>>>,
     <<PyStr(<<"2", "0", "2", "4", "-", "0", "2", "-", "2", "9", " ", "1", "3", ":", "3", "0", ":", "0", "0">>),
       <<"2", "9", " ", "F", "e", "b", " ", "2", "0", "2", "4", ",", " ", "0", "1", ":", "3", "0", " ", "P", "M">>>>,
     <<PyStr(<<"2", "0", "2", "4", "-", "0", "2", "-", "2", "9", "T", "1", "2", ":", "3", "0", ":", "0", "0">>),
       <<"2", "9", " ", "F", "e", "b", " ", "2", "0", "2", "4", ",", " ", "1", "2", ":", "3", "0", " ", "P", "M">>>>,
     <<PyStr(<<"2", "0", "2", "3", "-", "0", "2", "-", "2", "9", "T", "1", "0", ":", "0", "0", ":", "0", "0">>),
       <<"N", "/", "A">>>>,
     <<PyStr(<<"2", "0", "2", "4", "-", "0", "2", "-", "2", "9", "T", "1", "3", ":", "3", "0", ":", "0">>),
       <<"N", "/", "A">>>>,
     <<PyStr(<<"2", "0", "2", "4", "-", "0", "2", "-", "2", "9", "T", "1", "3", ":", "6", "0", ":", "0", "0">>),
       <<"N", "/", "A">>>>,
     <<PyStr(<<"2", "0", "2", "4", "-", "1", "3", "-", "2", "9", "T", "1", "3", ":", "3", "0", ":", "0", "0">>),
       <<"N", "/", "A">>>>,
     <<PyStr(<<"2", "0", "2", "4", "-", "0", "2", "-", "2", "9", "T", "1", "3", ":", "3", "0", ":", "0", "0", "+">>),
       <<"N", "/", "A">>>>}

\* the duration text of sample pairs <<created, resolved, text>>, written out
DurationExpected ==
    {<<<<"2", "0", "2", "4", "-", "0", "1", "-", "0", "1", "T", "1", "0", ":", "0", "0", ":", "0", "0">>,
       <<"2", "0", "2", "4", "-", "0", "1", "-", "0", "1", "T", "1", "3", ":", "3", "0", ":", "0", "0">>,
       <<"3", "h", " ", "3", "0", "m">>>>,
     <<<<"2", "0", "2", "4", "-", "0", "1", "-", "0", "1", "T", "1", "3", ":", "3", "0", ":", "0", "0">>,
       <<"2", "0", "2", "4", "-", "0", "1", "-", "0", "1", "T", "1", "0", ":", "0", "0", ":", "0", "0">>,
       <<"-", "4", "h", " ", "3", "0", "m">>>>,
     <<<<"2", "0", "2", "3", "-", "1", "2", "-", "3", "1", "T", "2", "3", ":", "5", "9", ":", "5", "9">>,
       <<"2", "0", "2", "4", "-", "0", "1", "-", "0", "1", "T", "0", "0", ":", "0", "0", ":", "0", "0">>,
       <<"0", "h", " ", "0", "m">>>>,
     <<<<"2", "0", "2", "4", "-", "0", "1", "-", "0", "1", "T", "0", "0", ":", "0", "0", ":", "0", "0">>,
       <<"2", "0", "2", "3", "-", "1", "2", "-", "3", "1", "T", "2", "3", ":", "5", "9", ":", "5", "9">>,
       <<"-", "1", "h", " ", "5", "9", "m">>>>,
     <<<<"2", "0", "2", "4", "-", "0", "2", "-", "2", "8", "T", "1", "0", ":", "0", "0", ":", "0", "0">>,
       <<"2", "0", "2", "4", "-", "0", "3", "-", "0", "1", "T", "1", "0", ":", "0", "0", ":", "0", "1">>,
       <<"4", "8", "h", " ", "0", "m">>>>,
     <<<<"2", "0", "2", "4", "-", "0", "3", "-", "0", "1", "T", "1", "0", ":", "0", "0", ":", "0", "0">>,
       <<"2", "0", "2", "4", "-", "0", "2", "-", "2", "8", "T", "1", "3", ":", "3", "0", ":", "0", "0">>,
       <<"-", "4", "5", "h", " ", "3", "0", "m">>>>,
     <<<<"2", "0", "2", "4", "-", "0", "1", "-", "0", "1", "T", "1", "0", ":", "0", "0", ":", "0", "0", "Z">>,
       <<"2", "0", "2", "4", "-", "0", "2", "-", "2", "9", "T", "1", "0", ":", "0", "0", ":", "0", "0">>,
       <<"1", "4", "1", "6", "h", " ", "0", "m">>>>,
     <<<<"2", "0", "2", "4", "-", "0", "1", "-", "0", "1", "T", "1", "0", ":", "0", "0", ":", "0", "0", "+", "0", "5", ":", "3", "0">>,
       <<"2", "0", "2", "4", "-", "0", "1", "-", "0", "1", "T", "1", "0", ":", "0", "0", ":", "0", "0", "-", "0", "1", ":", "0", "0">>,
       <<"6", "h", " ", "3", "0", "m">>>>,
     <<<<"2", "0", "2", "4", "-", "0", "2", "-", "2", "9">>,
       <<"2", "0", "2", "4", "-", "0", "2", "-", "2", "9", "T", "1", "3", ":", "3", "0">>,
       <<"1", "3", "h", " ", "3", "0", "m">>>>,
     <<<<"2", "0", "2", "4", "-", "0", "1", "-", "0", "1", "T", "1", "0", ":", "0", "0", ":", "0", "0">>,
       <<"2", "0", "2", "4", "-", "0", "1", "-", "0", "1", "T", "1", "0", ":", "0", "0", ":", "0", "0">>,
       <<"0", "h", " ", "0", "m">>>>}

\* an offset of hours alone (+05): Python 3.11 reads it, earlier versions reject it
ShortOffsetAt(t, tzpos) == tzpos > 0 /\ Len(Drop(t, tzpos)) = 2
ShortOffset(x) ==
    Len(x) > 11 /\ ShortOffsetAt(Drop(x, 11), TzPos(Find(Drop(x, 11), "-"), Find(Drop(x, 11), "+")))

DateInputs ==
    NonStamps
    \cup {PyStr(x) : x \in {y \in Stamps \cup Perturbed \cup Prefixes(S_base_off) : ~ShortOffset(y)}}
    \cup {PyStr(Append(x, "Z")) : x \in Stamps}
    \cup {PyStr(x) : x \in Inserted} \cup {PyStr(S_base \o <<"Z", "Z">>)}
    \cup {e[1] : e \in FormatExpected}

DurationInputs ==
    {None, PyInt(0), PyBool(TRUE), PyStr(<<>>), PyStr(S_NA)}
    \cup {PyStr(x) : x \in Stamps}
    \cup {PyStr(Iso(<<2024, 1, 1>>, c) \o z) : c \in Clocks,
              z \in {<<"Z">>, <<"+", "0", "5", ":", "3", "0">>, <<"-", "0", "1", ":", "0", "0">>}}
    \cup {PyStr(SubSeq(S_base, 1, 10)), PyStr(SubSeq(S_base, 1, 16))}
    \cup {PyStr(e[1]) : e \in DurationExpected} \cup {PyStr(e[2]) : e \in DurationExpected}

-----------------------------------------------------------------------------
(* The timestamp and duration formatter *)

InitTime ==
    /\ pc \in {"parse", "format", "duration"}
    /\ created \in IF pc = "duration" THEN DurationInputs ELSE DateInputs
    /\ resolved \in IF pc = "duration" THEN DurationInputs ELSE {None}
    /\ shown = Pending
    /\ IdleUnwrap /\ IdleTicket /\ IdleText /\ IdleRemote /\ IdleSession

ParseIso ==
    /\ pc = "parse"
    /\ shown' = Return(parse_iso(created))
    /\ pc' = "parsed"
    /\ UNCHANGED <<created, resolved, restOfTime>>

FormatDatetime ==
    /\ pc = "format"
    /\ shown' = format_datetime(created)
    /\ pc' = "formatted"
    /\ UNCHANGED <<created, resolved, restOfTime>>

CalculateResolutionTime ==
    /\ pc = "duration"
    /\ shown' = calculate_resolution_time(created, resolved)
    /\ pc' = "timed"
    /\ UNCHANGED <<created, resolved, restOfTime>>

NextTime == ParseIso \/ FormatDatetime \/ CalculateResolutionTime

SpecTime == InitTime /\ [][NextTime]_vars

\* C9: format_datetime returns "N/A" exactly when parse_iso yields nothing: for
\* null, any non-string, the empty string and a string that is not a timestamp;
\* it never raises.
C9_FormatNA ==
    pc = "formatted" =>
        /\ Returned(shown)
        /\ IsStr(shown.val)
        /\ (shown.val = PyStr(S_NA)) <=> (parse_iso(created) = None)
        /\ (~IsStr(created) \/ created = PyStr(<<>>)) => shown.val = PyStr(S_NA)
        /\ \A e \in FormatExpected : created = e[1] => shown.val = PyStr(e[2])

\* a non-string, and a string that is not a timestamp, have each been rendered as N/A
C9_Witness ==
    /\ pc = "formatted"
    /\ created = PyStr(S_not_date)
    /\ parse_iso(created) = None
    /\ shown = Return(PyStr(S_NA))

\* both endpoints parse and their difference is defined
Timed ==
    /\ pc = "timed"
    /\ parse_iso(created) # None /\ parse_iso(resolved) # None
    /\ parse_iso(created).v.aware = parse_iso(resolved).v.aware

\* resolved - created in whole seconds
Elapsed == Subtract(parse_iso(resolved).v, parse_iso(created).v).val.v

\* C10: for two parsable timestamps s seconds apart the result is "{h}h {m}m" with
\* h = floor(s / 3600) and m = floor((s - 3600 h) / 60), for every integer s; when
\* resolved is earlier than created the result is neither clamped nor "N/A" but
\* has a negative hours component.
C10_Duration ==
    /\ Timed =>
          LET h == Elapsed \div 3600
              m == (Elapsed - 3600 * h) \div 60
          IN /\ shown = Return(PyStr(IntToStr(h) \o <<"h", " ">> \o IntToStr(m) \o <<"m">>))
             /\ m \in 0..59
             /\ Elapsed < 0 => (h < 0 /\ Head(shown.val.v) = "-" /\ shown.val # PyStr(S_NA))
    /\ pc = "timed" =>
          \A e \in DurationExpected :
              (created = PyStr(e[1]) /\ resolved = PyStr(e[2])) => shown = Return(PyStr(e[3]))

\* a ticket resolved three and a half hours before it was created has been timed
C10_Witness ==
    /\ Timed
    /\ Elapsed = -12600
    /\ shown = Return(PyStr(<<"-", "4", "h", " ", "3", "0", "m">>))

\* the text has the shape "{h}h {m}m"
IsHoursMinutes(x) ==
    /\ Len(x) >= 5
    /\ x[Len(x)] = "m"
    /\ Find(x, "h") > 0
    /\ Find(x, "h") + 1 < Len(x)
    /\ x[Find(x, "h") + 1] = " "

\* C11: calculate_resolution_time is total: for every pair of inputs it returns
\* "N/A" when either endpoint fails to parse and an "{h}h {m}m" string otherwise,
\* and it never raises, also when only one of the timestamps carries a UTC offset.
C11_ResolutionTimeTotal ==
    pc = "timed" =>
        /\ Returned(shown)
        /\ IsStr(shown.val)
        /\ (parse_iso(created) = None \/ parse_iso(resolved) = None) => shown.val = PyStr(S_NA)
        /\ (parse_iso(created) # None /\ parse_iso(resolved) # None) => IsHoursMinutes(shown.val.v)

-----------------------------------------------------------------------------
(* parse_iso on its own *)

\* the text without its last character when that is the UTC marker "Z"
WithoutTrailingZ(x) ==
    IF Len(x) > 0 /\ x[Len(x)] = "Z" THEN SubSeq(x, 1, Len(x) - 1) ELSE x

\* a "Z" stands somewhere else than at the end of the text
HasInnerZ(x) == \E i \in 1..(Len(x) - 1) : x[i] = "Z"

\* C21: parse_iso returns a timestamp only for a string that is a valid
\* ISO-8601 timestamp once a trailing "Z" is stripped; it returns nothing for
\* null, for a non-string and for every other string, a string with a "Z"
\* elsewhere than at the end included, and it never raises.
C21_ParseIso ==
    pc = "parsed" =>
        /\ Returned(shown)
        /\ shown.val # None =>
              (IsStr(created) /\ Returned(fromisoformat(WithoutTrailingZ(created.v))))
        /\ (IsStr(created) /\ HasInnerZ(created.v)) => shown.val = None

------------------------------------------------------------------------------
(* format_attachments and format_resolution_block *)

K_file_name == <<"f", "i", "l", "e", "_", "n", "a", "m", "e">>
K_s3_key == <<"s", "3", "_", "k", "e", "y">>
K_uploaded_at == <<"u", "p", "l", "o", "a", "d", "e", "d", "_", "a", "t">>
K_ticket_id == <<"t", "i", "c", "k", "e", "t", "_", "i", "d">>
K_resolution_time == <<"r", "e", "s", "o", "l", "u", "t", "i", "o", "n", "_", "t", "i", "m", "e">>
S_NoUserSteps == <<"N", "o", " ", "u", "s", "e", "r", " ", "s", "t", "e", "p", "s">>
S_NoITSteps == <<"N", "o", " ", "I", "T", " ", "s", "t", "e", "p", "s">>

\* an entry that keeps uploaded_at as it came
AttachmentEntryRaw(a) ==
    PyDict(K_id :> Get(a, K_id, None) @@ K_file_name :> Get(a, K_file_name, None)
           @@ K_s3_key :> Get(a, K_s3_key, None)
           @@ K_uploaded_at :> Get(a, K_uploaded_at, None))

\* one entry of the list format_attachments builds
AttachmentEntry(a) ==
    PyDict(K_id :> Get(a, K_id, None) @@ K_file_name :> Get(a, K_file_name, None)
           @@ K_s3_key :> Get(a, K_s3_key, None)
           @@ K_uploaded_at :> format_datetime(Get(a, K_uploaded_at, None)).val)

\* the loop body: a.get(...) exists only on a dict
RECURSIVE FormatEach(_, _, _)
FormatEach(lst, i, out) ==
    IF i > Len(lst) THEN Return(PyList(out))
    ELSE IF ~IsDict(lst[i]) THEN Raise("AttributeError")
    ELSE FormatEach(lst, i + 1, Append(out, AttachmentEntry(lst[i])))

\* for a in attachments or []: a str yields its characters and a dict its keys,
\* neither of which has .get; a number or a datetime is not iterable
format_attachments(attachments) ==
    IF ~Truthy(attachments) THEN Return(EmptyList)
    ELSE CASE IsList(attachments) -> FormatEach(attachments.v, 1, <<>>)
           [] IsStr(attachments) \/ IsDict(attachments) -> Raise("AttributeError")
           [] OTHER -> Raise("TypeError")

\* x, whatever it is
OrElseNever(x, fallback) == x

\* x or fallback
OrElse(x, fallback) == IF Truthy(x) THEN x ELSE fallback

\* value.get(key) or fallback
StepsOr(t, key, fallback) == OrElse(Get(t, key, None), fallback)

\* the dict display of format_resolution_block, its values evaluated in order
BlockOf(t, time, atts) ==
    IF ~Returned(time) THEN time
    ELSE IF ~Returned(atts) THEN atts
    ELSE Return(PyDict(
           K_ticket_id :> t.v[K_id]
        @@ K_title :> t.v[K_title]
        @@ K_user_resolution_steps :> StepsOr(t, K_user_resolution_steps, PyStr(S_NoUserSteps))
        @@ K_it_resolution_steps :> StepsOr(t, K_it_resolution_steps, PyStr(S_NoITSteps))
        @@ K_resolved_at :> format_datetime(Get(t, K_resolved_at, None)).val
        @@ K_resolution_time :> time.val
        @@ K_attachments :> atts.val))

ResolutionBlock(n) ==
    IF ~Returned(n) THEN n
    ELSE BlockOf(n.val,
                 calculate_resolution_time(Get(n.val, K_created_at, None),
                                           Get(n.val, K_resolved_at, None)),
                 format_attachments(Get(n.val, K_attachments, EmptyList)))

format_resolution_block(t) == ResolutionBlock(normalize_ticket_data(t))

-----------------------------------------------------------------------------
(* Inputs of format_resolution_block *)

S_steps == <<"R", "e", "b", "o", "o", "t", " ", "i", "t", ".">>
S_blank == <<" ">>
S_aware == <<"2", "0", "2", "4", "-", "0", "1", "-", "0", "1", "T", "1", "2", ":", "0", "0", ":", "0", "0", "+", "0", "5", ":", "3", "0">>
S_later == <<"2", "0", "2", "4", "-", "0", "1", "-", "0", "2", "T", "1", "3", ":", "3", "0", ":", "0", "0">>
S_shot == <<"s", "h", "o", "t", ".", "p", "n", "g">>

Attachment1 == PyDict(K_id :> PyInt(1) @@ K_file_name :> PyStr(S_shot)
                      @@ K_uploaded_at :> PyStr(S_timestamp))
Attachment2 == PyDict(K_s3_key :> PyStr(S_text))

StepsChoices == {Absent, None, PyStr(<<>>), PyStr(S_steps), PyStr(S_blank), EmptyList,
                 PyList(<<PyStr(S_steps)>>), PyInt(0), PyBool(FALSE)}
BlockResolvedChoices ==
    {Absent, None, PyBool(TRUE), PyStr(<<>>), PyStr(S_timestamp), PyStr(S_later),
     PyStr(S_aware), PyStr(S_not_date)}
BlockCreatedChoices == {Absent, PyStr(S_timestamp), PyStr(S_aware), PyStr(S_NA)}
AttachmentChoices ==
    {Absent, None, EmptyList, PyList(<<Attachment1>>), PyList(<<Attachment1, Attachment2>>),
     PyList(<<None>>), PyStr(S_text), PyInt(1)}

BlockInputs ==
    {MakeDict(<<<<K_user_resolution_steps, us>>, <<K_it_resolution_steps, its>>,
                <<K_resolved_at, ra>>, <<K_created_at, ca>>, <<K_attachments, at>>,
                <<K_id, PyStr(S_text)>>>>) :
        us \in StepsChoices, its \in StepsChoices, ra \in BlockResolvedChoices,
        ca \in BlockCreatedChoices, at \in AttachmentChoices}
    \cup {MakeDict(<<<<K_id, id>>, <<K_title, ti>>, <<K_resolved_at, ra>>,
                     <<K_attachments, at>>>>) :
             id \in IdChoices, ti \in TitleChoices, ra \in BlockResolvedChoices,
             at \in AttachmentChoices}
    \cup NonDicts

-----------------------------------------------------------------------------
(* The resolution block builder: one call per ticket *)

InitBlock ==
    /\ pc = "block"
    /\ ticket \in BlockInputs
    /\ ticket0 = ticket
    /\ prev = ticket
    /\ status = None /\ tickets = None /\ calls = 0 /\ outcome = Pending
    /\ IdleUnwrap /\ IdleTime /\ IdleText /\ IdleRemote /\ IdleSession

\* the ticket object is normalized in place before the block is built
FormatResolutionBlock ==
    /\ pc = "block"
    /\ outcome' = format_resolution_block(ticket)
    /\ ticket' = IF IsDict(ticket) THEN normalize_ticket_data(ticket).val ELSE ticket
    /\ pc' = "block_done"
    /\ UNCHANGED <<status, ticket0, prev, calls, tickets, restOfTicket>>

NextBlock == FormatResolutionBlock

SpecBlock == InitBlock /\ [][NextBlock]_vars

\* the block has been built for a ticket mapping
Built == pc = "block_done" /\ IsDict(ticket0) /\ Returned(outcome)

\* the key is missing from the ticket, or holds null
MissingOrNull(t, k) == ~HasKey(t, k) \/ t.v[k] = None

\* C12: format_resolution_block on a ticket whose resolved_at is missing or null
\* returns resolution_time "N/A" and resolved_at "N/A"; on a ticket whose
\* user_resolution_steps / it_resolution_steps are missing, null or empty it returns
\* "No user steps" / "No IT steps"; non-empty step texts are passed through unchanged.
C12_BlockFallbacks ==
    Built =>
        /\ MissingOrNull(ticket0, K_resolved_at) =>
              /\ outcome.val.v[K_resolution_time] = PyStr(S_NA)
              /\ outcome.val.v[K_resolved_at] = PyStr(S_NA)
        /\ (MissingOrNull(ticket0, K_user_resolution_steps)
               \/ ticket0.v[K_user_resolution_steps] = PyStr(<<>>)) =>
              outcome.val.v[K_user_resolution_steps] = PyStr(S_NoUserSteps)
        /\ (MissingOrNull(ticket0, K_it_resolution_steps)
               \/ ticket0.v[K_it_resolution_steps] = PyStr(<<>>)) =>
              outcome.val.v[K_it_resolution_steps] = PyStr(S_NoITSteps)
        /\ \A k \in {K_user_resolution_steps, K_it_resolution_steps} :
              (HasKey(ticket0, k) /\ IsStr(ticket0.v[k]) /\ ticket0.v[k].v # <<>>) =>
                  outcome.val.v[k] = ticket0.v[k]

\* a block built for a ticket with no resolved_at, null user steps and given IT steps
C12_Witness ==
    /\ Built
    /\ ~HasKey(ticket0, K_resolved_at)
    /\ HasKey(ticket0, K_user_resolution_steps) /\ ticket0.v[K_user_resolution_steps] = None
    /\ HasKey(ticket0, K_it_resolution_steps) /\ ticket0.v[K_it_resolution_steps] = PyStr(S_steps)
    /\ outcome.val.v[K_resolution_time] = PyStr(S_NA)
    /\ outcome.val.v[K_resolved_at] = PyStr(S_NA)
    /\ outcome.val.v[K_user_resolution_steps] = PyStr(S_NoUserSteps)
    /\ outcome.val.v[K_it_resolution_steps] = PyStr(S_steps)

\* the value under a key, or the default normalize_ticket_data injects when absent
GivenOr(t, k, default) == IF HasKey(t, k) THEN t.v[k] ELSE PyStr(default)

\* entry i of the built attachments keeps id, file_name and s3_key of attachment i
\* and carries its uploaded_at as format_datetime renders it
EntryKept(entry, a) ==
    /\ IsDict(entry)
    /\ DOMAIN entry.v = {K_id, K_file_name, K_s3_key, K_uploaded_at}
    /\ \A k \in {K_id, K_file_name, K_s3_key} : entry.v[k] = Get(a, k, None)
    /\ entry.v[K_uploaded_at] = format_datetime(Get(a, K_uploaded_at, None)).val

\* C23: format_resolution_block always normalizes its ticket first: for every
\* ticket mapping t the block of t equals the block of normalize(t); its ticket_id
\* and title are those of the normalized ticket ("Unknown" / "Untitled" when
\* absent); its attachments list has the length and order of the ticket's, each
\* entry keeping id, file_name and s3_key, with uploaded_at rewritten by
\* format_datetime.
C23_BlockOfNormalized ==
    (pc = "block_done" /\ IsDict(ticket0)) =>
        /\ outcome = format_resolution_block(normalize_ticket_data(ticket0).val)
        /\ ticket = normalize_ticket_data(ticket0).val
        /\ Returned(outcome) =>
              /\ outcome.val.v[K_ticket_id] = GivenOr(ticket0, K_id, S_Unknown)
              /\ outcome.val.v[K_ticket_id] = ticket.v[K_id]
              /\ outcome.val.v[K_title] = GivenOr(ticket0, K_title, S_Untitled)
              /\ outcome.val.v[K_title] = ticket.v[K_title]
              /\ IsList(outcome.val.v[K_attachments])
              /\ IsList(Get(ticket0, K_attachments, EmptyList)) =>
                    LET given == Get(ticket0, K_attachments, EmptyList).v
                        built == outcome.val.v[K_attachments].v
                    IN /\ Len(built) = Len(given)
                       /\ \A i \in 1..Len(given) : EntryKept(built[i], given[i])

\* a block built for a ticket without id and title that has two attachments, the
\* first with an upload time
C23_Witness ==
    /\ Built
    /\ ~HasKey(ticket0, K_id) /\ ~HasKey(ticket0, K_title)
    /\ Get(ticket0, K_attachments, None) = PyList(<<Attachment1, Attachment2>>)
    /\ outcome.val.v[K_ticket_id] = PyStr(S_Unknown)
    /\ outcome.val.v[K_title] = PyStr(S_Untitled)
    /\ Len(outcome.val.v[K_attachments].v) = 2
    /\ outcome.val.v[K_attachments].v[1].v[K_uploaded_at] = format_datetime(PyStr(S_timestamp)).val
    /\ outcome.val.v[K_attachments].v[1].v[K_uploaded_at] # PyStr(S_timestamp)

-----------------------------------------------------------------------------
(* Text helpers of the AI free-text reformatters.  The whitespace of       *)
(* str.strip() and of the regular expression class \s is taken to be the   *)
(* ASCII whitespace; BULLET stands for the single character U+2022.        *)

Whitespace == {" ", "\t", "\n", "\r", "\f"}
BULLET == "U+2022"

RECURSIVE LStrip(_, _)
LStrip(s, cs) == IF s # <<>> /\ Head(s) \in cs THEN LStrip(Tail(s), cs) ELSE s

RECURSIVE RStrip(_, _)
RStrip(s, cs) ==
    IF s # <<>> /\ s[Len(s)] \in cs THEN RStrip(SubSeq(s, 1, Len(s) - 1), cs) ELSE s

\* s.strip(chars) and s.strip()
StripChars(s, cs) == RStrip(LStrip(s, cs), cs)
Strip(s) == StripChars(s, Whitespace)

\* s.replace(c, r) for a one-character c
RECURSIVE ReplaceChar(_, _, _)
ReplaceChar(s, c, r) ==
    IF s = <<>> THEN <<>>
    ELSE (IF Head(s) = c THEN r ELSE <<Head(s)>>) \o ReplaceChar(Tail(s), c, r)

\* the position of the first sep in s at or after i, 0 when there is none
RECURSIVE FindFrom(_, _, _)
FindFrom(s, sep, i) ==
    IF i + Len(sep) - 1 > Len(s) THEN 0
    ELSE IF SubSeq(s, i, i + Len(sep) - 1) = sep THEN i
    ELSE FindFrom(s, sep, i + 1)

\* s.split(sep)
RECURSIVE Split(_, _)
SplitAt(s, sep, i) ==
    IF i = 0 THEN <<s>>
    ELSE <<SubSeq(s, 1, i - 1)>> \o Split(Drop(s, i + Len(sep) - 1), sep)
Split(s, sep) == SplitAt(s, sep, FindFrom(s, sep, 1))

\* s.split(sep)[-1]
LastOf(parts) == parts[Len(parts)]

\* sep.join(parts)
RECURSIVE Join(_, _)
Join(parts, sep) ==
    IF parts = <<>> THEN <<>>
    ELSE IF Len(parts) = 1 THEN parts[1]
    ELSE parts[1] \o sep \o Join(Tail(parts), sep)

\* the members of a sequence that satisfy a test, in order
RECURSIVE NonEmpty(_)
NonEmpty(parts) ==
    IF parts = <<>> THEN <<>>
    ELSE (IF Head(parts) # <<>> THEN <<Head(parts)>> ELSE <<>>) \o NonEmpty(Tail(parts))

\* repr(s) of a str: single quotes unless the text holds ' and no "
ReprChar(c, q) ==
    CASE c = "\\" -> <<"\\", "\\">>
      [] c = "\n" -> <<"\\", "n">>
      [] c = "\t" -> <<"\\", "t">>
      [] c = "\r" -> <<"\\", "r">>
      [] c = q    -> <<"\\", q>>
      [] OTHER    -> <<c>>

RECURSIVE ReprChars(_, _)
ReprChars(s, q) == IF s = <<>> THEN <<>> ELSE ReprChar(Head(s), q) \o ReprChars(Tail(s), q)

ReprQuote(s) == IF Find(s, "'") > 0 /\ Find(s, "\"") = 0 THEN "\"" ELSE "'"
ReprStr(s) == <<ReprQuote(s)>> \o ReprChars(s, ReprQuote(s)) \o <<ReprQuote(s)>>

S_None == <<"N", "o", "n", "e">>
S_True == <<"T", "r", "u", "e">>
S_False == <<"F", "a", "l", "s", "e">>

\* the keys of a dict as a sequence; insertion order is not part of the dict
\* model, the reformatter inputs hold dicts of at most one key
RECURSIVE KeySeq(_)
KeySeq(ks) == IF ks = {} THEN <<>> ELSE LET k == CHOOSE x \in ks : TRUE
                                      IN <<k>> \o KeySeq(ks \ {k})

\* repr(x)
RECURSIVE Repr(_)
RECURSIVE ReprEach(_)
ReprEach(xs) == [i \in 1..Len(xs) |-> Repr(xs[i])]
ReprPairs(d) == [i \in 1..Len(KeySeq(DOMAIN d)) |->
                    ReprStr(KeySeq(DOMAIN d)[i]) \o <<":", " ">> \o Repr(d[KeySeq(DOMAIN d)[i]])]
Repr(x) ==
    CASE x.t = "none" -> S_None
      [] x.t = "bool" -> IF x.v THEN S_True ELSE S_False
      [] x.t = "int"  -> IntToStr(x.v)
      [] x.t = "str"  -> ReprStr(x.v)
      [] x.t = "list" -> <<"[">> \o Join(ReprEach(x.v), <<",", " ">>) \o <<"]">>
      [] x.t = "dict" -> <<"{">> \o Join(ReprPairs(x.v), <<",", " ">>) \o <<"}">>

\* str(x)
StrOf(x) == IF IsStr(x) THEN x.v ELSE Repr(x)
StrOfEach(xs) == [i \in 1..Len(xs) |-> StrOf(xs[i])]
StripEach(xs) == [i \in 1..Len(xs) |-> Strip(xs[i])]

\* the HTML the reformatters emit
RECURSIVE Concat(_)
Concat(parts) == IF parts = <<>> THEN <<>> ELSE Head(parts) \o Concat(Tail(parts))
Li(x) == <<"<", "l", "i", ">">> \o x \o <<"<", "/", "l", "i", ">">>
LiEach(xs) == [i \in 1..Len(xs) |-> Li(xs[i])]
Ul(xs) == <<"<", "u", "l", ">">> \o Concat(LiEach(xs)) \o <<"<", "/", "u", "l", ">">>
P(x) == <<"<", "p", ">">> \o x \o <<"<", "/", "p", ">">>

-----------------------------------------------------------------------------
(* clean_and_format_ai_output *)

\* cleaned.split("]")[-1].strip()
AfterLastBracket(s) == Strip(LastOf(Split(s, <<"]">>)))

CleanEach(xs) == [i \in 1..Len(xs) |-> AfterLastBracket(Strip(StrOf(xs[i])))]

\* the parts of the text between ". " and newlines, trimmed, the empty ones dropped
SentenceParts(text) == NonEmpty(StripEach(Split(ReplaceChar(text, "\n", <<".", " ">>), <<".", " ">>)))

PartsOrText(text, parts) == IF Len(parts) > 1 THEN Ul(parts) ELSE P(text)

CleanText(text) == PartsOrText(text, SentenceParts(text))

clean_and_format_ai_output(text) ==
    IF IsList(text) THEN Return(PyStr(Ul(NonEmpty(CleanEach(text.v)))))
    ELSE IF IsStr(text)
         THEN Return(PyStr(CleanText(IF Find(text.v, "]") > 0 THEN AfterLastBracket(text.v)
                                     ELSE text.v)))
    ELSE Return(PyStr(P(StrOf(text))))

-----------------------------------------------------------------------------
(* smart_format_ai_output of utils.py *)

S_NoSuggestion == <<"N", "o", " ", "s", "u", "g", "g", "e", "s", "t", "i", "o", "n", " ", "a", "v", "a", "i", "l", "a", "b", "l", "e", ".">>

Lower(c) == CASE c = "B" -> "b" [] c = "O" -> "o" [] c = "T" -> "t" [] OTHER -> c

\* re.sub(r"^bot[:\- ]*", "", text, flags=re.IGNORECASE)
StripBot(text) ==
    IF Len(text) >= 3 /\ <<Lower(text[1]), Lower(text[2]), Lower(text[3])>> = <<"b", "o", "t">>
    THEN LStrip(Drop(text, 3), {":", "-", " "})
    ELSE text

\* (?<!\d)(\d+): the first position at or after i that starts a run of digits
RECURSIVE MarkerFrom(_, _)
MarkerFrom(s, i) ==
    IF i > Len(s) THEN 0
    ELSE IF IsDigit(s[i]) /\ (i = 1 \/ ~IsDigit(s[i - 1])) THEN i
    ELSE MarkerFrom(s, i + 1)

\* \s* before the digits: where the whitespace that ends before j begins, not before pos
RECURSIVE SpaceStart(_, _, _)
SpaceStart(s, j, pos) ==
    IF j > pos /\ s[j - 1] \in Whitespace THEN SpaceStart(s, j - 1, pos) ELSE j

\* the first position at or after i that holds no digit / no whitespace
RECURSIVE DigitEnd(_, _)
DigitEnd(s, i) == IF i <= Len(s) /\ IsDigit(s[i]) THEN DigitEnd(s, i + 1) ELSE i

RECURSIVE SpaceEnd(_, _)
SpaceEnd(s, i) == IF i <= Len(s) /\ s[i] \in Whitespace THEN SpaceEnd(s, i + 1) ELSE i

\* [\.\-\)]?
PunctEnd(s, i) == IF i <= Len(s) /\ s[i] \in {".", "-", ")"} THEN i + 1 ELSE i

\* \s*[\.\-\)]?\s* after the digits that end before k
MatchEnd(s, k) == SpaceEnd(s, PunctEnd(s, SpaceEnd(s, k)))

\* re.split(r"\s*(?<!\d)(\d+)\s*[\.\-\)]?\s*", s): the text before each match and
\* the digits the match captured, then the text after the last match
RECURSIVE SplitMarkers(_, _)
SplitAtMarker(s, pos, j) ==
    IF j = 0 THEN <<SubSeq(s, pos, Len(s))>>
    ELSE <<SubSeq(s, pos, SpaceStart(s, j, pos) - 1), SubSeq(s, j, DigitEnd(s, j) - 1)>>
         \o SplitMarkers(s, MatchEnd(s, DigitEnd(s, j)))
SplitMarkers(s, pos) == SplitAtMarker(s, pos, MarkerFrom(s, pos))

\* if current: steps.append(current.strip())
Flush(current, steps) == IF current # <<>> THEN Append(steps, Strip(current)) ELSE steps

\* the loop over the parts
RECURSIVE CollectSteps(_, _, _, _)
StepPart(parts, i, part, current, steps) ==
    IF part = <<>> THEN CollectSteps(parts, i + 1, current, steps)
    ELSE IF AllDigits(part) THEN CollectSteps(parts, i + 1, <<>>, Flush(current, steps))
    ELSE CollectSteps(parts, i + 1, current \o <<" ">> \o part, steps)
CollectSteps(parts, i, current, steps) ==
    IF i > Len(parts) THEN Flush(current, steps)
    ELSE StepPart(parts, i, Strip(parts[i]), current, steps)

StepsOrText(text, steps) == IF steps = <<>> THEN P(text) ELSE Ul(steps)

RenderSteps(text) == StepsOrText(text, CollectSteps(SplitMarkers(text, 1), 1, <<>>, <<>>))

\* raw_text.replace("\n", " ").replace(BULLET, "").strip(), then the prefix removal
SmartText(raw_text) == StripBot(Strip(RemoveChar(ReplaceChar(raw_text, "\n", <<" ">>), BULLET)))

\* "is None"
IsNoneInput(x) == x = None

\* "not raw_text", "not output"
IsEmptyInput(x) == ~Truthy(x)

\* a number, True or a mapping has no .replace
smart_format_ai_output(raw_text) ==
    IF IsEmptyInput(raw_text) THEN Return(PyStr(P(S_NoSuggestion)))
    ELSE IF IsList(raw_text)
         THEN Return(PyStr(RenderSteps(SmartText(Join(StrOfEach(raw_text.v), <<" ">>)))))
    ELSE IF IsStr(raw_text) THEN Return(PyStr(RenderSteps(SmartText(raw_text.v))))
    ELSE Raise("AttributeError")

-----------------------------------------------------------------------------
(* ast.literal_eval on a list display.  Covered: lists, str literals in    *)
(* either quote (also triple-quoted and adjacent ones), unsigned integers, *)
(* None / True / False and whitespace; a name or any other syntax fails.   *)
(* The inputs hold no backslash, sign, fraction, string prefix, tuple, set *)
(* or dict display.                                                        *)

Quotes == {"'", "\""}

\* a '...' or "..." literal after its opening quote
RECURSIVE LitScanShort(_, _, _)
LitScanShort(s, q, acc) ==
    IF s = <<>> \/ Head(s) = "\n" THEN Fail
    ELSE IF Head(s) = q THEN Ok(PyStr(acc), Tail(s))
    ELSE LitScanShort(Tail(s), q, Append(acc, Head(s)))

\* a triple-quoted literal after its opening quotes
RECURSIVE LitScanLong(_, _, _)
LitScanLong(s, q, acc) ==
    IF Len(s) < 3 THEN Fail
    ELSE IF SubSeq(s, 1, 3) = <<q, q, q>> THEN Ok(PyStr(acc), Drop(s, 3))
    ELSE LitScanLong(Tail(s), q, Append(acc, Head(s)))

LitString(s) ==
    IF StartsWith(s, <<Head(s), Head(s), Head(s)>>) THEN LitScanLong(Drop(s, 3), Head(s), <<>>)
    ELSE LitScanShort(Tail(s), Head(s), <<>>)

\* whitespace inside the brackets
RECURSIVE LitSkipWs(_)
LitSkipWs(s) == IF s # <<>> /\ Head(s) \in Whitespace THEN LitSkipWs(Tail(s)) ELSE s

\* adjacent string literals are concatenated
RECURSIVE LitStrings(_, _)
LitMore(r, acc) ==
    IF ~r.ok THEN Fail
    ELSE IF LitSkipWs(r.rest) # <<>> /\ Head(LitSkipWs(r.rest)) \in Quotes
         THEN LitStrings(LitSkipWs(r.rest), acc \o r.val.v)
    ELSE Ok(PyStr(acc \o r.val.v), r.rest)
LitStrings(s, acc) == LitMore(LitString(s), acc)

\* a decimal integer: a leading 0 only in a run of zeros
LitNumber(s, k) ==
    IF k - 1 > 1 /\ Head(s) = "0" /\ \E i \in 1..(k - 1) : s[i] # "0" THEN Fail
    ELSE Ok(PyInt(DigitsToNat(SubSeq(s, 1, k - 1), 0)), Drop(s, k - 1))

RECURSIVE LitValue(_)
RECURSIVE LitElements(_, _)

\* after a value of a list display: "]", or "," and then "]" or one more value
LitAfter(w, a) ==
    IF w = <<>> THEN Fail
    ELSE IF Head(w) = "]" THEN Ok(PyList(a), Tail(w))
    ELSE IF Head(w) # "," THEN Fail
    ELSE IF LitSkipWs(Tail(w)) # <<>> /\ Head(LitSkipWs(Tail(w))) = "]"
         THEN Ok(PyList(a), Tail(LitSkipWs(Tail(w))))
    ELSE LitElements(LitSkipWs(Tail(w)), a)

LitElement(x, acc) == IF ~x.ok THEN Fail ELSE LitAfter(LitSkipWs(x.rest), Append(acc, x.val))
LitElements(s, acc) == LitElement(LitValue(s), acc)

LitList(u) == IF u # <<>> /\ Head(u) = "]" THEN Ok(EmptyList, Tail(u)) ELSE LitElements(u, <<>>)

LitValue(s) ==
    IF s = <<>> THEN Fail
    ELSE IF Head(s) \in Quotes THEN LitStrings(s, <<>>)
    ELSE IF Head(s) = "[" THEN LitList(LitSkipWs(Tail(s)))
    ELSE IF IsDigit(Head(s)) THEN LitNumber(s, DigitEnd(s, 1))
    ELSE IF StartsWith(s, S_None) THEN Ok(None, Drop(s, 4))
    ELSE IF StartsWith(s, S_True) THEN Ok(PyBool(TRUE), Drop(s, 4))
    ELSE IF StartsWith(s, S_False) THEN Ok(PyBool(FALSE), Drop(s, 5))
    ELSE Fail

LitWhole(r) == IF r.ok /\ LitSkipWs(r.rest) = <<>> THEN Return(r.val) ELSE Raise("ValueError")

literal_eval(txt) == LitWhole(LitValue(LStrip(txt, {" ", "\t"})))

-----------------------------------------------------------------------------
(* smart_format_ai_output of admin_app.py, which shadows the imported one *)

S_NoData == <<"N", "o", " ", "d", "a", "t", "a", " ", "r", "e", "t", "u", "r", "n", "e", "d", ".">>

\* one bullet per item: str(item).strip()
ItemBullets(items) == Ul(StripEach(StrOfEach(items)))

\* [l.strip("-* ").strip() for l in txt.split("\n") if l.strip()]
TrimLine(l) == Strip(StripChars(l, {"-", BULLET, " "}))
RECURSIVE TrimLines(_)
TrimLines(ls) ==
    IF ls = <<>> THEN <<>>
    ELSE (IF Strip(Head(ls)) # <<>> THEN <<TrimLine(Head(ls))>> ELSE <<>>) \o TrimLines(Tail(ls))

LineBullets(txt) == Ul(TrimLines(Split(txt, <<"\n">>)))

\* the try block around ast.literal_eval; the bare except passes on to the lines
ParsedOrLines(txt, parsed) ==
    IF Returned(parsed) /\ IsList(parsed.val) THEN ItemBullets(parsed.val.v)
    ELSE LineBullets(txt)

LooksLikeList(txt) == txt # <<>> /\ Head(txt) = "[" /\ txt[Len(txt)] = "]"

AdminText(txt) ==
    IF LooksLikeList(txt) THEN ParsedOrLines(txt, literal_eval(txt)) ELSE LineBullets(txt)

admin_app_smart_format_ai_output(output) ==
    IF IsEmptyInput(output) THEN Return(PyStr(P(S_NoData)))
    ELSE IF IsList(output) THEN Return(PyStr(ItemBullets(output.v)))
    ELSE IF IsStr(output) THEN Return(PyStr(AdminText(Strip(output.v))))
    ELSE Return(PyStr(P(StrOf(output))))

-----------------------------------------------------------------------------
(* Inputs of the reformatters *)

MaxTextLen == 3
MaxLiteralLen == 3

TextAlphabet == {"1", ".", ")", " ", "a", "\n", "]", "-"}
LiteralAlphabet == {"\"", "'", ",", "a", " ", "1", "[", "]"}

S_a == <<"a">>
S_b == <<"b">>
S_x == <<"x">>
S_y == <<"y">>
S_a_padded == <<" ", "a", " ">>
S_two_steps == <<"1", ".", " ", "R", "e", "s", "t", "a", "r", "t", " ", "t", "h", "e", " ", "r", "o", "u", "t", "e", "r", ".", " ", "2", ".", " ", "C", "h", "e", "c", "k", " ", "c", "a", "b", "l", "e", "s", ".">>
S_step1 == <<"R", "e", "s", "t", "a", "r", "t", " ", "t", "h", "e", " ", "r", "o", "u", "t", "e", "r", ".">>
S_step2 == <<"C", "h", "e", "c", "k", " ", "c", "a", "b", "l", "e", "s", ".">>
S_leaked_id == <<"B", "o", "t", ":", " ", "[", "6", "f", "2", "a", "f", "d", "4", "6", "-", "2", "d", "b", "7", "-", "4", "a", "1", "1", "-", "9", "f", "1", "a", "-", "0", "0", "0", "0", "0", "0", "0", "0", "0", "0", "0", "0", "]", " ", "T", "r", "y", " ", "a", "g", "a", "i", "n", " ", "l", "a", "t", "e", "r", ".">>
S_try_again == <<"T", "r", "y", " ", "a", "g", "a", "i", "n", " ", "l", "a", "t", "e", "r", ".">>
S_list_xy == <<"[", "\"", "x", "\"", ",", " ", "\"", "y", "\"", "]">>
S_list_names == <<"[", "x", ",", " ", "y", "]">>
S_list_mixed == <<"[", "N", "o", "n", "e", ",", " ", "1", ",", " ", "'", "a", "'", " ", "\"", "b", "\"", "]">>
S_list_long == <<"[", "\"", "\"", "\"", "a", "\"", "\"", "\"", ",", " ", "[", "1", ",", " ", "\"", "i", "t", "'", "s", "\"", "]", "]">>
S_preamble == <<"S", "t", "e", "p", "s", ":", " ", "1", ")", " ", "a", " ", "2", ")", " ", "b">>
S_port == <<"U", "s", "e", " ", "p", "o", "r", "t", " ", "8", "0", "8", "0", " ", "n", "o", "w">>
S_bot_dash == <<"B", "O", "T", ":", "-", " ", "g", "o">>
S_dashes == <<"-", " ", "a", "\n", "-", " ", "b", "\n", "\n", "-", "\n">>
S_sentences == <<"R", "e", "s", "t", "a", "r", "t", ".", " ", "C", "h", "e", "c", "k", "\n", "D", "o", "n", "e">>
S_id_then_text == <<"[", "x", "]", " ", "d", "o", " ", "t", "h", "i", "s", ".", " ", "[", "y", "]", " ", "d", "o", " ", "t", "h", "a", "t">>
S_bullets == <<BULLET, " ", "a", "\n", BULLET, " ", "b">>

TextSamples ==
    {S_two_steps, S_leaked_id, S_list_xy, S_list_names, S_list_mixed, S_list_long, S_preamble,
     S_port, S_bot_dash, S_dashes, S_sentences, S_id_then_text, S_bullets, S_try_again}

TextElements == {PyStr(S_a), PyStr(S_b), PyStr(S_a_padded), PyStr(<<>>), PyInt(1), None,
                 PyStr(S_id_then_text), PyList(<<PyStr(S_a)>>)}

\* the empty inputs, then a number, True and a mapping, then lists and texts
TextInputs ==
    {None, PyStr(<<>>), EmptyList, PyInt(0), PyBool(FALSE), EmptyDict}
    \cup {PyInt(5), PyBool(TRUE), PyDict(K_k :> PyInt(1))}
    \cup {PyList(l) : l \in ListsUpTo(TextElements, MaxListLen)}
    \cup {PyStr(x) : x \in StringsUpTo(TextAlphabet, MaxTextLen)}
    \cup {PyStr(<<"[">> \o x \o <<"]">>) : x \in StringsUpTo(LiteralAlphabet, MaxLiteralLen)}
    \cup {PyStr(x) : x \in TextSamples}

-----------------------------------------------------------------------------
(* The reformatters: each is called once on the AI output *)

InitText ==
    /\ pc = "text"
    /\ ai_output \in TextInputs
    /\ smart = Pending /\ smart_admin = Pending /\ cleaned = Pending
    /\ IdleUnwrap /\ IdleTicket /\ IdleTime /\ IdleRemote /\ IdleSession

SmartFormatAiOutput ==
    /\ pc = "text"
    /\ smart = Pending
    /\ smart' = smart_format_ai_output(ai_output)
    /\ UNCHANGED <<pc, ai_output, smart_admin, cleaned, restOfText>>

AdminSmartFormatAiOutput ==
    /\ pc = "text"
    /\ smart_admin = Pending
    /\ smart_admin' = admin_app_smart_format_ai_output(ai_output)
    /\ UNCHANGED <<pc, ai_output, smart, cleaned, restOfText>>

CleanAndFormatAiOutput ==
    /\ pc = "text"
    /\ cleaned = Pending
    /\ cleaned' = clean_and_format_ai_output(ai_output)
    /\ UNCHANGED <<pc, ai_output, smart, smart_admin, restOfText>>

NextText == SmartFormatAiOutput \/ AdminSmartFormatAiOutput \/ CleanAndFormatAiOutput

SpecText == InitText /\ [][NextText]_vars

\* what follows a prefix of s and precedes a suffix of it
Between(s, prefix, suffix) == SubSeq(s, Len(prefix) + 1, Len(s) - Len(suffix))
Wraps(s, prefix, suffix) ==
    /\ Len(s) >= Len(prefix) + Len(suffix)
    /\ StartsWith(s, prefix)
    /\ SubSeq(s, Len(s) - Len(suffix) + 1, Len(s)) = suffix

\* the bullet texts of an emitted <ul>...</ul>, none for any other result
RECURSIVE BulletTexts(_)
BulletTexts(items) ==
    IF Len(items) <= 1 THEN <<>>
    ELSE <<Drop(Head(items), 4)>> \o BulletTexts(Tail(items))
Bullets(html) ==
    IF Wraps(html, <<"<", "u", "l", ">">>, <<"<", "/", "u", "l", ">">>)
    THEN BulletTexts(Split(Between(html, <<"<", "u", "l", ">">>, <<"<", "/", "u", "l", ">">>), <<"<", "/", "l", "i", ">">>))
    ELSE <<>>

\* the bullets, or the one entry of a <p>...</p> result
Entries(html) ==
    IF Wraps(html, <<"<", "p", ">">>, <<"<", "/", "p", ">">>) THEN <<Between(html, <<"<", "p", ">">>, <<"<", "/", "p", ">">>)>>
    ELSE Bullets(html)

EmptyInputs == {EmptyList, None, PyStr(<<>>)}

\* C13: for each definition of smart_format_ai_output (utils.py and admin_app.py),
\* the empty list, null and the empty string all produce the same result, a single
\* placeholder entry with no bullets.
C13_EmptyInputPlaceholder ==
    ai_output \in EmptyInputs =>
        /\ smart # Pending =>
              /\ smart = Return(PyStr(P(S_NoSuggestion)))
              /\ Bullets(smart.val.v) = <<>> /\ Len(Entries(smart.val.v)) = 1
        /\ smart_admin # Pending =>
              /\ smart_admin = Return(PyStr(P(S_NoData)))
              /\ Bullets(smart_admin.val.v) = <<>> /\ Len(Entries(smart_admin.val.v)) = 1

\* both definitions have answered the empty list with their placeholder
C13_Witness ==
    /\ ai_output = EmptyList
    /\ smart = Return(PyStr(P(S_NoSuggestion)))
    /\ smart_admin = Return(PyStr(P(S_NoData)))

\* the outcomes of the two definitions of smart_format_ai_output that exist so far
SmartOutcomes == {o \in {smart, smart_admin} : o # Pending}

\* C14: given a non-empty list, smart_format_ai_output emits exactly one bullet per
\* element, each the trimmed element, in the order of the list: ["a", "b"] gives the
\* two bullets a, b.
C14_BulletPerElement ==
    (IsList(ai_output) /\ ai_output.v # <<>>) =>
        \A o \in SmartOutcomes :
            /\ Returned(o)
            /\ Bullets(o.val.v) = StripEach(StrOfEach(ai_output.v))
            /\ ai_output = PyList(<<PyStr(S_a), PyStr(S_b)>>) => Bullets(o.val.v) = <<S_a, S_b>>

\* C15: given a string whose trimmed form starts with [ and ends with ],
\* smart_format_ai_output parses it as a list literal and emits one bullet per
\* element in order ('["x", "y"]' gives the bullets x, y); when the literal does not
\* parse, it does not raise and the text is handled as free narrative text.
C15_ListLiteral ==
    (IsStr(ai_output) /\ LooksLikeList(Strip(ai_output.v))) =>
        \A o \in SmartOutcomes :
            /\ Returned(o)
            /\ Returned(literal_eval(Strip(ai_output.v))) =>
                  Bullets(o.val.v) =
                      StripEach(StrOfEach(literal_eval(Strip(ai_output.v)).val.v))
            /\ ai_output = PyStr(S_list_xy) => Bullets(o.val.v) = <<S_x, S_y>>

HasDigit(s) == \E i \in 1..Len(s) : IsDigit(s[i])

\* C16: on free narrative text with numeric step markers (digits optionally followed
\* by ".", "-" or ")"), smart_format_ai_output emits one bullet per step, in source
\* order, each bullet being the text between a marker and the next marker or the
\* end: "1. Restart the router. 2. Check cables." gives the two bullets
\* "Restart the router." and "Check cables."; no bullet is empty and no marker
\* appears in a bullet.
C16_NumberedSteps ==
    (IsStr(ai_output) /\ HasDigit(ai_output.v) /\ ~LooksLikeList(Strip(ai_output.v))) =>
        \A o \in SmartOutcomes :
            /\ Returned(o)
            /\ \A i \in 1..Len(Bullets(o.val.v)) :
                  Bullets(o.val.v)[i] # <<>> /\ ~HasDigit(Bullets(o.val.v)[i])
            /\ ai_output = PyStr(S_two_steps) => Bullets(o.val.v) = <<S_step1, S_step2>>

\* the text holds an opening bracket with a closing bracket after it
HasBracketed(s) == \E i \in 1..Len(s) : \E j \in (i + 1)..Len(s) : s[i] = "[" /\ s[j] = "]"

\* C17: a leading role prefix ("bot:", any letter case) and any embedded bracketed
\* identifier [...] are removed from the emitted bullets:
\* "Bot: [6f2afd46-2db7-4a11-9f1a-000000000000] Try again later." yields exactly one
\* bullet, "Try again later.".
C17_PrefixAndIdRemoved ==
    (IsStr(ai_output) /\ ~LooksLikeList(Strip(ai_output.v)) /\ smart # Pending) =>
        /\ Returned(smart)
        /\ \A i \in 1..Len(Entries(smart.val.v)) : ~HasBracketed(Entries(smart.val.v)[i])
        /\ ai_output = PyStr(S_leaked_id) => Entries(smart.val.v) = <<S_try_again>>

\* C18: the AI free-text reformatters never raise for any input shape (null, string,
\* list, list with non-string elements, number, mapping): smart_format_ai_output in
\* utils.py, its redefinition in admin_app.py and clean_and_format_ai_output always
\* return a bullet list, a single entry or the placeholder.
C18_NeverRaises ==
    \A o \in {smart, smart_admin, cleaned} :
        o # Pending => (Returned(o) /\ IsStr(o.val)
                        /\ (Wraps(o.val.v, <<"<", "u", "l", ">">>, <<"<", "/", "u", "l", ">">>) \/ Wraps(o.val.v, <<"<", "p", ">">>, <<"<", "/", "p", ">">>)))

-----------------------------------------------------------------------------
(* invoke_lambda of lambda_client.py.  What boto3 did is an outcome: the   *)
(* exception lambda_client.invoke raised, with its message, or the payload *)
(* text that response["Payload"].read().decode("utf-8") delivered.         *)

K_raw == <<"r", "a", "w">>
S_InvocationFailed == <<"L", "a", "m", "b", "d", "a", " ", "I", "n", "v", "o", "c", "a", "t", "i", "o", "n", " ", "F", "a", "i", "l", "e", "d", ":", " ">>
S_InvalidTopLevel == <<"I", "n", "v", "a", "l", "i", "d", " ", "t", "o", "p", "-", "l", "e", "v", "e", "l", " ", "J", "S", "O", "N">>
S_InvalidBody == <<"I", "n", "v", "a", "l", "i", "d", " ", "b", "o", "d", "y", " ", "J", "S", "O", "N">>

\* a body string that does not decode is dropped
DecodedBodyOrEmpty(body, decoded) == IF Returned(decoded) THEN decoded.val ELSE EmptyDict

\* try: parsed["body"] = json.loads(body); except Exception: the error mapping
DecodedBody(body, decoded) ==
    IF Returned(decoded) THEN decoded.val
    ELSE PyDict(K_error :> PyStr(S_InvalidBody) @@ K_raw :> body)

\* if isinstance(parsed, dict) and "body" in parsed and isinstance(body, str)
WithDecodedBody(parsed) ==
    IF IsDict(parsed) /\ HasKey(parsed, K_body) /\ IsStr(parsed.v[K_body])
    THEN SetItem(parsed, K_body, DecodedBody(parsed.v[K_body], json_loads(parsed.v[K_body].v)))
    ELSE parsed

\* try: parsed = json.loads(raw); except Exception: the error mapping
ParsedPayload(raw, parsed) ==
    IF Returned(parsed) THEN WithDecodedBody(parsed.val)
    ELSE PyDict(K_error :> PyStr(S_InvalidTopLevel) @@ K_raw :> raw)

invoke_lambda(inv) ==
    IF ~Returned(inv) THEN Return(PyDict(K_error :> PyStr(S_InvocationFailed \o inv.val.v)))
    ELSE Return(ParsedPayload(inv.val, json_loads(inv.val.v)))

-----------------------------------------------------------------------------
(* Inputs of invoke_lambda: what the Lambda service sends back *)

\* s as a JSON string literal, as the Lambda's json.dumps writes it
JsonQuote(s) ==
    <<"\"">> \o ReplaceChar(ReplaceChar(ReplaceChar(s, "\\", <<"\\", "\\">>), "\"", <<"\\", "\"">>),
                         "\n", <<"\\", "n">>)
             \o <<"\"">>

\* {"statusCode": 200, "body": x}
Envelope(x) == <<"{", "\"", "s", "t", "a", "t", "u", "s", "C", "o", "d", "e", "\"", ":", " ", "2", "0", "0", ",", " ", "\"", "b", "o", "d", "y", "\"", ":", " ">> \o x \o <<"}">>

S_timed_out == <<"R", "e", "a", "d", " ", "t", "i", "m", "e", "o", "u", "t">>
S_errorMessage == <<"{", "\"", "e", "r", "r", "o", "r", "M", "e", "s", "s", "a", "g", "e", "\"", ":", " ", "\"", "T", "a", "s", "k", " ", "t", "i", "m", "e", "d", " ", "o", "u", "t", "\"", "}">>

Payloads ==
    {Envelope(JsonQuote(b)) : b \in BodyStrings}
    \cup {Envelope(b) : b \in BodyStrings}
    \cup BodyStrings
    \cup {S_errorMessage, JsonQuote(S_obj_k1)}

Invocations ==
    {Return(PyStr(p)) : p \in Payloads}
    \cup {[exc |-> "ClientError", val |-> PyStr(S_timed_out)],
          [exc |-> "ReadTimeoutError", val |-> PyStr(<<>>)]}

-----------------------------------------------------------------------------
(* One remote call: invoke_lambda, then parse_response_body on its result *)

InitRemote ==
    /\ pc = "invoke"
    /\ invocation \in Invocations
    /\ response = None
    /\ unwrapped = Pending
    /\ IdleTicket /\ IdleTime /\ IdleText /\ IdleSession

InvokeLambda ==
    /\ pc = "invoke"
    /\ response' = invoke_lambda(invocation).val
    /\ pc' = "unwrap"
    /\ UNCHANGED <<unwrapped, invocation, restOfRemote>>

NextRemote == InvokeLambda \/ ParseResponseBody

SpecRemote == InitRemote /\ [][NextRemote]_vars

\* the remote call is over and the caller holds the unwrapped mapping
Obtained == pc = "unwrapped" /\ invocation # Pending

InvocationFailed == ~Returned(invocation)
TopLevel == json_loads(invocation.val.v)
TopLevelNotJson == Returned(invocation) /\ ~Returned(TopLevel)

\* the payload is a JSON object whose body is a string that is not valid JSON
BodyNotJson ==
    /\ Returned(invocation) /\ Returned(TopLevel)
    /\ IsDict(TopLevel.val) /\ HasKey(TopLevel.val, K_body)
    /\ IsStr(TopLevel.val.v[K_body])
    /\ ~Returned(json_loads(TopLevel.val.v[K_body].v))

-----------------------------------------------------------------------------
(* The login session of app.py.  Every click runs the script once; after   *)
(* the handler has written the session state, st.rerun() runs main() again *)
(* and view records the page that run renders.                             *)

UpperLetters == <<"A", "B", "C", "D", "E", "F", "G", "H", "I", "J", "K", "L", "M",
                  "N", "O", "P", "Q", "R", "S", "T", "U", "V", "W", "X", "Y", "Z">>
LowerLetters == <<"a", "b", "c", "d", "e", "f", "g", "h", "i", "j", "k", "l", "m",
                  "n", "o", "p", "q", "r", "s", "t", "u", "v", "w", "x", "y", "z">>

\* s.lower()
LowerChar(c) == IF \E i \in 1..26 : UpperLetters[i] = c
                THEN LowerLetters[CHOOSE i \in 1..26 : UpperLetters[i] = c]
                ELSE c
StrLower(s) == [i \in 1..Len(s) |-> LowerChar(s[i])]

\* s.endswith(suffix)
EndsWith(s, suffix) ==
    Len(s) >= Len(suffix) /\ SubSeq(s, Len(s) - Len(suffix) + 1, Len(s)) = suffix

S_admin_email == <<"a", "d", "m", "i", "n", "@", "n", "s", "i", "g", "h", "t", ".", "c", "o", "m">>
S_admin_password == <<"A", "d", "m", "i", "n", "@", "1", "2", "3">>
S_user_password == <<"U", "s", "e", "r", "@", "1", "2", "3">>
S_domain == <<"@", "n", "s", "i", "g", "h", "t", ".", "c", "o", "m">>
S_admin == <<"a", "d", "m", "i", "n">>
S_user == <<"u", "s", "e", "r">>

\* the e-mail alone decides
IsAdminLoginByEmail(login_email, login_password) == StrLower(login_email) = S_admin_email

\* email.lower() == "admin@nsight.com" and password == "Admin@123"
IsAdminLogin(login_email, login_password) ==
    StrLower(login_email) = S_admin_email /\ login_password = S_admin_password

\* password == "User@123" and email.endswith("@nsight.com")
IsUserLogin(login_email, login_password) ==
    login_password = S_user_password /\ EndsWith(login_email, S_domain)

\* main(): the login page unless logged in, then the dashboard of the role
Rendered(li, r) ==
    IF ~li THEN "login" ELSE IF r = PyStr(S_admin) THEN "admin" ELSE "user"

-----------------------------------------------------------------------------
(* What a visitor can type and pick *)

Emails ==
    {S_admin_email, <<"A", "d", "m", "i", "n", "@", "N", "s", "i", "g", "h", "t", ".", "c", "o", "m">>, <<"A", "D", "M", "I", "N", "@", "N", "S", "I", "G", "H", "T", ".", "C", "O", "M">>, <<"a", "d", "m", "i", "n", "@", "n", "s", "i", "g", "h", "t", ".", "c", "o", "m", " ">>,
     <<"b", "o", "b", "@", "n", "s", "i", "g", "h", "t", ".", "c", "o", "m">>, <<"b", "o", "b", "@", "N", "S", "I", "G", "H", "T", ".", "C", "O", "M">>, <<"b", "o", "b", "@", "e", "v", "i", "l", ".", "c", "o", "m">>, <<"a", "d", "m", "i", "n", "@", "n", "s", "i", "g", "h", "t", ".", "c", "o", "m", ".", "e", "v", "i", "l", ".", "o", "r", "g">>,
     S_domain, <<>>}
Passwords ==
    {S_admin_password, S_user_password, <<"a", "d", "m", "i", "n", "@", "1", "2", "3">>, <<"u", "s", "e", "r", "@", "1", "2", "3">>, <<"A", "d", "m", "i", "n", "@", "1", "2", "3", " ">>, <<>>}
TicketIds == {PyStr(<<"T", "-", "1">>), PyStr(<<"T", "-", "2">>)}

-----------------------------------------------------------------------------
(* The session *)

\* the session keys user_app.py and admin_app.py write
K_last_category == <<"l", "a", "s", "t", "_", "c", "a", "t", "e", "g", "o", "r", "y">>
K_last_description == <<"l", "a", "s", "t", "_", "d", "e", "s", "c", "r", "i", "p", "t", "i", "o", "n">>
K_similar_tickets == <<"s", "i", "m", "i", "l", "a", "r", "_", "t", "i", "c", "k", "e", "t", "s">>
K_admin_df == <<"a", "d", "m", "i", "n", "_", "d", "f">>
K_show_ticket_modal == <<"s", "h", "o", "w", "_", "t", "i", "c", "k", "e", "t", "_", "m", "o", "d", "a", "l">>
K_search_triggered == <<"s", "e", "a", "r", "c", "h", "_", "t", "r", "i", "g", "g", "e", "r", "e", "d">>
K_search_query == <<"s", "e", "a", "r", "c", "h", "_", "q", "u", "e", "r", "y">>
K_admin_current_nav == <<"a", "d", "m", "i", "n", "_", "c", "u", "r", "r", "e", "n", "t", "_", "n", "a", "v">>
K_tickets == <<"t", "i", "c", "k", "e", "t", "s">>
S_general_support == <<"g", "e", "n", "e", "r", "a", "l", "_", "s", "u", "p", "p", "o", "r", "t">>

\* the pages that end in an uncaught TypeError
S_no_len == "TypeError: object has no len()"
S_not_subscriptable == "TypeError: 'NoneType' object is not subscriptable"
S_unhashable == "TypeError: unhashable type"

\* what one run of the script leaves behind
Ran(sess, scr, snt, cch) == [session |-> sess, screen |-> scr, sent |-> snt, cached |-> cch]

-----------------------------------------------------------------------------
(* The Raise Ticket tab of user_app.py.  A run of the script handles at    *)
(* most one click.                                                          *)

\* len(x) is defined
HasLen(x) == IsList(x) \/ IsStr(x) \/ IsDict(x)

\* render_nav: len(st.session_state.get("similar_tickets", []))
render_nav(sess) ==
    IF HasLen(Get(sess, K_similar_tickets, EmptyList)) THEN Return(None) ELSE Raise("TypeError")

\* text[:60]
First60(text) == SubSeq(text, 1, IF Len(text) < 60 THEN Len(text) ELSE 60)

\* st.session_state.get("last_description", "")[:60]
DefaultTitle(sess) ==
    IF IsStr(Get(sess, K_last_description, PyStr(<<>>)))
    THEN Return(PyStr(First60(Get(sess, K_last_description, PyStr(<<>>)).v)))
    ELSE Raise("TypeError")

\* the two assignments kept apart: only the description is stored
CacheTextOnly(sess, category, issue_text) == SetItem(sess, K_last_description, PyStr(issue_text))

\* st.session_state["last_category"] = category
\* st.session_state["last_description"] = issue_text
CachePair(sess, category, issue_text) ==
    SetItem(SetItem(sess, K_last_category, category), K_last_description, PyStr(issue_text))

\* the three assignments after a created ticket
ClearForm(sess) ==
    SetItem(SetItem(SetItem(sess, K_last_category, None), K_last_description, None),
            K_similar_tickets, EmptyList)

\* "body" in resp
IsSubstring(needle, hay) == FindFrom(hay, needle, 1) > 0
InResp(resp) ==
    CASE IsDict(resp) -> Return(PyBool(HasKey(resp, K_body)))
      [] IsList(resp) -> Return(PyBool(In(PyStr(K_body), resp.v)))
      [] IsStr(resp)  -> Return(PyBool(IsSubstring(K_body, resp.v)))
      [] OTHER        -> Raise("TypeError")

\* if isinstance(body, str): body = json.loads(body)
BodyOf(body) == IF IsStr(body) THEN json_loads(body.v) ELSE Return(body)

\* the form is cleared whatever came back
CreatedAlways(sess, resp, snt, cch) ==
    Ran(ClearForm(sess), "Ticket Created Successfully", snt, cch)

\* the try block after create_ticket: the keys are cleared when body.get exists
CreatedOrNot(sess, resp, snt, cch) ==
    IF ~Returned(InResp(resp)) THEN Ran(sess, "Error creating ticket", snt, cch)
    ELSE IF ~InResp(resp).val.v THEN Ran(sess, "Raise Ticket", snt, cch)
    ELSE IF ~IsDict(resp) THEN Ran(sess, "Error creating ticket", snt, cch)
    ELSE IF ~Returned(BodyOf(resp.v[K_body])) \/ ~IsDict(BodyOf(resp.v[K_body]).val)
         THEN Ran(sess, "Error creating ticket", snt, cch)
    ELSE Ran(ClearForm(sess), "Ticket Created Successfully", snt, cch)

\* create_ticket(title, st.session_state["last_description"], final_category, user_email)
CreateArgs(sess, title, user_email) ==
    PyDict(K_title :> PyStr(title)
        @@ K_description :> sess.v[K_last_description]
        @@ K_category :> Get(sess, K_last_category, PyStr(S_general_support))
        @@ K_user_email :> user_email)

\* the Submit Ticket area: the title input, then the button
SubmitArea(sess, snt, cch, click, title, create_resp, user_email) ==
    IF ~Returned(DefaultTitle(sess)) THEN Ran(sess, S_not_subscriptable, snt, cch)
    ELSE IF click # "submit" THEN Ran(sess, "Raise Ticket", snt, cch)
    ELSE IF ~Truthy(Get(sess, K_last_description, None))
         THEN Ran(sess, "Please run Check Resolution first.", snt, cch)
    ELSE IF Strip(title) = <<>> THEN Ran(sess, "Please enter a ticket title.", snt, cch)
    ELSE CreatedOrNot(sess, create_resp, CreateArgs(sess, title, user_email), cch)

\* SUGGESTION_KB.get(category, ...) needs a hashable key
Hashable(x) == ~IsList(x) /\ ~IsDict(x)

\* the Check Resolution block after the description was found non-blank
Checked(sess, snt, issue_text, body, sim_body, category, user_email) ==
    IF ~IsDict(sim_body)
    THEN Ran(CachePair(sess, category, issue_text), "AttributeError", snt,
             PyList(<<category, PyStr(issue_text)>>))
    ELSE IF ~Hashable(category)
    THEN Ran(SetItem(CachePair(sess, category, issue_text), K_similar_tickets,
                     Get(sim_body, K_similar_tickets, EmptyList)),
             S_unhashable, snt, PyList(<<category, PyStr(issue_text)>>))
    ELSE SubmitArea(SetItem(CachePair(sess, category, issue_text), K_similar_tickets,
                            Get(sim_body, K_similar_tickets, EmptyList)),
                    snt, PyList(<<category, PyStr(issue_text)>>), "check", <<>>, None, user_email)

\* tab_raise_ticket, for the click of this run and what the widgets hold
tab_raise_ticket(sess, snt, cch, click, issue_text, title, body, sim_body, create_resp, user_email) ==
    IF click = "check"
    THEN IF Strip(issue_text) = <<>>
         THEN Ran(sess, "Please enter an issue description.", snt, cch)
         ELSE IF ~IsDict(body) THEN Ran(sess, "AttributeError", snt, cch)
         ELSE Checked(sess, snt, issue_text, body, sim_body,
                      Get(body, K_category, PyStr(S_general_support)), user_email)
    ELSE SubmitArea(sess, snt, cch, click, title, create_resp, user_email)

\* user_router with the Raise Ticket tab picked
user_router(sess, snt, cch, click, issue_text, title, body, sim_body, create_resp, user_email) ==
    IF ~Returned(render_nav(sess)) THEN Ran(sess, S_no_len, snt, cch)
    ELSE tab_raise_ticket(sess, snt, cch, click, issue_text, title, body, sim_body,
                          create_resp, user_email)

-----------------------------------------------------------------------------
(* The admin dashboard of admin_app.py.  pd.DataFrame(tickets) has one row  *)
(* per ticket and one column per key; a cell of a row that lacks the key   *)
(* of a column holds NaN.                                                   *)

NaN == [t |-> "float", v |-> 0]
S_nan == <<"n", "a", "n">>
S_Dashboard == <<"D", "a", "s", "h", "b", "o", "a", "r", "d">>

\* the run of the script is over; rerun tells that st.rerun() has asked for another
AdminRan(sess, sel, scr, again) ==
    [session |-> sess, selected |-> sel, screen |-> scr, rerun |-> again]

\* df[k] exists
HasColumn(rows, k) == \E i \in 1..Len(rows) : IsDict(rows[i]) /\ HasKey(rows[i], k)
HasColumns(rows, ks) == \A k \in ks : HasColumn(rows, k)

\* row[k] of a row of the frame
Cell(row, k) == IF IsDict(row) /\ HasKey(row, k) THEN row.v[k] ELSE NaN

\* df[df["id"] == ticket_id]
RowsOf(rows, ticket_id) == SelectSeq(rows, LAMBDA r : Cell(r, K_id) = ticket_id)

\* the ids on the buttons of the rendered rows
RowIds(rows) == {Cell(rows[i], K_id) : i \in 1..Len(rows)}

\* the options of the Update Status selector
StatusOptions == <<PyStr(S_open), PyStr(S_in_progress), PyStr(S_resolved)>>

\* st.session_state["show_ticket_modal"] = x
ShowModal(sess, x) == SetItem(sess, K_show_ticket_modal, PyBool(x))

\* show_ticket_modal from the header on: Close, then options.index(current_status)
ModalBody(sess, sel, click, t, options) ==
    IF click = "close" THEN AdminRan(ShowModal(sess, FALSE), sel, "Closed", TRUE)
    ELSE IF ~In(t.v[K_status], options) THEN AdminRan(sess, sel, "ValueError", FALSE)
    ELSE AdminRan(sess, sel, "Ticket Details", FALSE)

ModalRows(sess, sel, click, rows) ==
    IF ~HasColumn(rows, K_id) THEN AdminRan(sess, sel, "KeyError", FALSE)
    ELSE IF RowsOf(rows, sel) = <<>>
    THEN AdminRan(ShowModal(sess, FALSE), sel, "Ticket not found", FALSE)
    ELSE ModalBody(sess, sel, click, normalize_ticket_data(RowsOf(rows, sel)[1]).val,
                   StatusOptions)

ModalData(sess, sel, click, tickets_data) ==
    IF ~Truthy(sel) \/ ~Truthy(tickets_data)
    THEN AdminRan(ShowModal(sess, FALSE), sel, "No ticket selected or data unavailable.", FALSE)
    ELSE IF ~IsList(tickets_data) THEN AdminRan(sess, sel, "DataFrame constructor error", FALSE)
    ELSE ModalRows(sess, sel, click, tickets_data.v)

show_ticket_modal(sess, sel, click) ==
    ModalData(sess, sel, click, Get(sess, K_admin_df, EmptyList))

\* str(r.get(k, "")).lower()
FieldText(rows, r, k) ==
    IF ~HasColumn(rows, k) THEN <<>>
    ELSE IF Cell(r, k) = NaN THEN S_nan
    ELSE StrLower(StrOf(Cell(r, k)))

SearchFields == {K_id, K_title, K_description, K_user_email, K_category, K_status}

\* the rows in which some field holds the query
Results(rows, q) ==
    SelectSeq(rows, LAMBDA r : \E k \in SearchFields : IsSubstring(q, FieldText(rows, r, k)))

\* the columns a result card and a dashboard card read
CardColumns == {K_id, K_title, K_user_email, K_category}

\* selected_ticket_id, show_ticket_modal and search_triggered of an opened result
OpenResult(sess) == SetItem(ShowModal(sess, TRUE), K_search_triggered, PyBool(FALSE))

\* the Back to Dashboard button of the search mode
BackOr(sess, sel, click, scr) ==
    IF click = "back"
    THEN AdminRan(SetItem(SetItem(sess, K_search_triggered, PyBool(FALSE)),
                          K_search_query, PyStr(<<>>)), sel, "Back", TRUE)
    ELSE AdminRan(sess, sel, scr, FALSE)

SearchResults(sess, sel, click, pick, rows, results) ==
    IF results = <<>> THEN BackOr(sess, sel, click, "No results")
    ELSE IF Len(results) = 1
    THEN IF ~HasColumn(rows, K_id) THEN AdminRan(sess, sel, "KeyError", FALSE)
         ELSE AdminRan(OpenResult(sess), Cell(results[1], K_id), "Opening", TRUE)
    ELSE IF ~HasColumns(rows, CardColumns) THEN AdminRan(sess, sel, "KeyError", FALSE)
    ELSE IF click = "view" /\ pick \in RowIds(results)
    THEN AdminRan(OpenResult(sess), pick, "Opening", TRUE)
    ELSE BackOr(sess, sel, click, "Search Results")

\* handle_global_search, then the Back button of admin_router
handle_global_search(sess, sel, click, pick, query, tickets_data) ==
    IF ~Truthy(tickets_data) THEN BackOr(sess, sel, click, "No ticket data loaded.")
    ELSE IF ~IsList(tickets_data) THEN AdminRan(sess, sel, "DataFrame constructor error", FALSE)
    ELSE SearchResults(sess, sel, click, pick, tickets_data.v, Results(tickets_data.v, StrLower(query)))

\* the columns admin_dashboard reads before it lists the recent tickets
DashboardColumns == {K_status, K_category, K_created_at} \cup CardColumns

\* admin_navigation and admin_dashboard
admin_dashboard(sess, sel, click, pick, tickets_data) ==
    IF ~Truthy(tickets_data) THEN AdminRan(sess, sel, "No tickets_data available.", FALSE)
    ELSE IF ~IsList(tickets_data) THEN AdminRan(sess, sel, "DataFrame constructor error", FALSE)
    ELSE IF ~HasColumns(tickets_data.v, DashboardColumns) THEN AdminRan(sess, sel, "KeyError", FALSE)
    ELSE IF click = "view" /\ pick \in RowIds(tickets_data.v)
    THEN AdminRan(ShowModal(sess, TRUE), pick, "Opening", TRUE)
    ELSE AdminRan(sess, sel, "Dashboard", FALSE)

\* admin_router after the tickets were stored
Routed(sess, sel, click, pick) ==
    IF Truthy(Get(sess, K_show_ticket_modal, None)) THEN show_ticket_modal(sess, sel, click)
    ELSE IF Truthy(Get(sess, K_search_triggered, PyBool(FALSE)))
    THEN handle_global_search(sess, sel, click, pick,
                              Get(sess, K_search_query, PyStr(<<>>)).v,
                              Get(sess, K_admin_df, EmptyList))
    ELSE admin_dashboard(SetDefault(sess, K_admin_current_nav, PyStr(S_Dashboard)), sel,
                         click, pick, Get(sess, K_admin_df, EmptyList))

\* admin_router: body is what parse_response_body made of get_all_tickets()
admin_router(sess, sel, click, pick, body) ==
    IF ~IsDict(body) THEN AdminRan(sess, sel, "AttributeError", FALSE)
    ELSE Routed(SetItem(sess, K_admin_df, Get(body, K_tickets, EmptyList)), sel, click, pick)

\* render_admin_header, whose Search button comes before admin_router
AdminPage(sess, sel, click, pick, query, body) ==
    IF click = "search" /\ Strip(query) # <<>>
    THEN AdminRan(SetItem(SetItem(sess, K_search_triggered, PyBool(TRUE)),
                          K_search_query, PyStr(Strip(query))), sel, "Searching", TRUE)
    ELSE admin_router(sess, sel, click, pick, body)

\* a run of the admin page and the runs st.rerun() asks for, each with the
\* tickets it loads
RECURSIVE AdminRuns(_, _, _, _, _, _)
AdminAgain(ran, bodies) ==
    IF ran.rerun /\ bodies # <<>>
    THEN AdminRuns(ran.session, ran.selected, "none", None, <<>>, bodies)
    ELSE ran
AdminRuns(sess, sel, click, pick, query, bodies) ==
    AdminAgain(AdminPage(sess, sel, click, pick, query, Head(bodies)), Tail(bodies))

-----------------------------------------------------------------------------
(* What the Lambda functions of the dashboards answer *)

S_vpn_down == <<"v", "p", "n", " ", "d", "o", "w", "n">>
S_bob == <<"b", "o", "b", "@", "n", "s", "i", "g", "h", "t", ".", "c", "o", "m">>
S_network == <<"n", "e", "t", "w", "o", "r", "k">>
J_list == <<"[", "1", "]">>

\* what the caller holds after invoke_lambda and parse_response_body
ResponseOf(inv) == invoke_lambda(inv).val
UnwrappedOf(inv) == parse_response_body(ResponseOf(inv)).val
Answer(body_text) == Return(PyStr(Envelope(JsonQuote(body_text))))
Failure == [exc |-> "ClientError", val |-> PyStr(S_timed_out)]

\* a ticket of the list get_all_tickets answers
ListedTicket(id, title, st, at) ==
    PyDict(K_id :> PyStr(id) @@ K_title :> PyStr(title) @@ K_user_email :> PyStr(S_bob)
           @@ K_category :> PyStr(S_network) @@ K_status :> PyStr(st)
           @@ K_created_at :> PyStr(at))
Ticket1 == ListedTicket(<<"T", "-", "1">>, S_vpn_down, S_open, S_timestamp)
Ticket2 == ListedTicket(<<"T", "-", "2">>, <<"v", "p", "n", " ", "s", "l", "o", "w">>, S_closed, S_later)
Ticket1Pending == ListedTicket(<<"T", "-", "1">>, S_vpn_down, <<"p", "e", "n", "d", "i", "n", "g">>, S_timestamp)
TicketNoId == PyDict(K_title :> PyStr(S_vpn_down))

\* the body of get_all_tickets as parse_response_body returns it: two tickets, one
\* of them closed; one ticket with an unknown status; no ticket; a ticket without
\* id; a body string that holds the text of a list in quotes, which
\* parse_response_body decodes to a list; no answer
TicketsBody(xs) == PyDict(K_tickets :> PyList(xs))
B_both == TicketsBody(<<Ticket1, Ticket2>>)
B_one == TicketsBody(<<Ticket1Pending>>)
B_empty == TicketsBody(<<>>)
B_no_id == TicketsBody(<<TicketNoId>>)
B_list == UnwrappedOf(Answer(JsonQuote(J_list)))
B_failure == UnwrappedOf(Failure)
TicketBodies == {B_both, B_one, B_empty, B_no_id, B_list, B_failure}

\* classify_ticket: a category, none, null, a list instead of a mapping, no answer
B_network == UnwrappedOf(Answer(<<"{", "\"", "c", "a", "t", "e", "g", "o", "r", "y", "\"", ":", " ", "\"", "n", "e", "t", "w", "o", "r", "k", "\"", "}">>))
ClassifyBodies ==
    {B_network, UnwrappedOf(Answer(<<"{", "}">>)), UnwrappedOf(Answer(<<"{", "\"", "c", "a", "t", "e", "g", "o", "r", "y", "\"", ":", " ", "n", "u", "l", "l", "}">>)),
     B_list, B_failure}

\* search_similar_tickets: one ticket, null, none, a list instead of a mapping
B_similar == UnwrappedOf(Answer(<<"{", "\"", "s", "i", "m", "i", "l", "a", "r", "_", "t", "i", "c", "k", "e", "t", "s", "\"", ":", " ", "[", "{", "\"", "t", "i", "c", "k", "e", "t", "_", "i", "d", "\"", ":", " ", "\"", "T", "-", "1", "\"", "}", "]", "}">>))
SimilarBodies ==
    {B_similar, UnwrappedOf(Answer(<<"{", "\"", "s", "i", "m", "i", "l", "a", "r", "_", "t", "i", "c", "k", "e", "t", "s", "\"", ":", " ", "n", "u", "l", "l", "}">>)), B_failure, B_list}

\* create_ticket: the new id in a body string, or in a body object; a body string
\* that is not JSON, or is a list, or holds the text {} or hi in quotes; an error
\* envelope; no answer; a payload that is a list, or the string "body"
R_created == ResponseOf(Answer(<<"{", "\"", "t", "i", "c", "k", "e", "t", "_", "i", "d", "\"", ":", " ", "\"", "T", "-", "9", "\"", "}">>))
R_not_json == ResponseOf(Answer(<<"{", "k", ":", "1", "}">>))
CreateResponses ==
    {R_created,
     ResponseOf(Return(PyStr(Envelope(<<"{", "\"", "i", "d", "\"", ":", " ", "\"", "T", "-", "9", "\"", "}">>)))),
     R_not_json,
     ResponseOf(Answer(J_list)),
     ResponseOf(Answer(JsonQuote(<<"{", "}">>))),
     ResponseOf(Answer(JsonQuote(<<"h", "i">>))),
     ResponseOf(Return(PyStr(S_errorMessage))),
     ResponseOf(Failure),
     ResponseOf(Return(PyStr(J_list))),
     ResponseOf(Return(PyStr(JsonQuote(K_body))))}

S_pay == <<"p", "a", "y">>
S_my_title == <<"p", "r", "i", "n", "t", "e", "r">>
IssueTexts == {<<>>, <<" ">>, S_vpn_down, S_pay}
Titles == {None, PyStr(<<" ">>), PyStr(S_my_title)}
Queries == {<<" ">>, <<"T", "-", "2">>, <<"V", "P", "N">>, <<"z", "z">>}

\* the session defaults, and the first run of main()
InitSession ==
    /\ pc = "session"
    /\ logged_in = FALSE /\ role = None /\ email = None
    /\ selected_ticket_id = None
    /\ theme = "light"
    /\ view = "login"
    /\ entered = None
    /\ session = EmptyDict /\ screen = "Login" /\ sent = None /\ cached = None
    /\ IdleUnwrap /\ IdleTicket /\ IdleTime /\ IdleText /\ IdleRemote

\* what a run of the admin page, with the runs it asks for, leaves in the state
AdminRunsDone(ran) ==
    /\ session' = ran.session
    /\ selected_ticket_id' = ran.selected
    /\ screen' = ran.screen
    /\ UNCHANGED <<sent, cached>>

\* what a run of the user page leaves in the state
UserRunDone(ran) ==
    /\ session' = ran.session
    /\ screen' = ran.screen
    /\ sent' = ran.sent
    /\ cached' = ran.cached
    /\ UNCHANGED selected_ticket_id

\* main() run again without a click: the login page or the dashboard of the role
Rerun(li, r, user_email, bodies) ==
    IF ~li THEN /\ screen' = "Login"
                /\ UNCHANGED <<session, selected_ticket_id, sent, cached>>
    ELSE IF r = PyStr(S_admin)
    THEN \E b1 \in bodies, b2 \in bodies, b3 \in bodies :
             AdminRunsDone(AdminRuns(session, selected_ticket_id, "none", None, <<>>,
                                     <<b1, b2, b3>>))
    ELSE UserRunDone(user_router(session, sent, cached, "none", <<>>, <<>>, None, None, None,
                                 user_email))

\* the Sign In button of login_page
SignInAs(emails, passwords, bodies) ==
    /\ view = "login"
    /\ \E login_email \in emails, login_password \in passwords :
          /\ entered' = PyList(<<PyStr(login_email), PyStr(login_password)>>)
          /\ IF IsAdminLogin(login_email, login_password)
             THEN /\ logged_in' = TRUE
                  /\ role' = PyStr(S_admin)
                  /\ email' = PyStr(login_email)
                  /\ Rerun(TRUE, PyStr(S_admin), PyStr(login_email), bodies)
             ELSE IF IsUserLogin(login_email, login_password)
             THEN /\ logged_in' = TRUE
                  /\ role' = PyStr(S_user)
                  /\ email' = PyStr(login_email)
                  /\ Rerun(TRUE, PyStr(S_user), PyStr(login_email), bodies)
             ELSE /\ screen' = "Invalid credentials. Please try again."
                  /\ UNCHANGED <<logged_in, role, email, session, selected_ticket_id, sent, cached>>
    /\ view' = Rendered(logged_in', role')
    /\ UNCHANGED <<pc, theme, restOfSession>>

\* the theme button of login_page and of render_theme_toggle
ToggleThemeOver(bodies) ==
    /\ theme' = IF theme = "light" THEN "dark" ELSE "light"
    /\ view' = Rendered(logged_in, role)
    /\ Rerun(logged_in, role, email, bodies)
    /\ UNCHANGED <<pc, logged_in, role, email, entered, restOfSession>>

\* the keys logout does not name are dropped
LogoutClearing(sess) == EmptyDict

\* the keys logout does not name stay as they are
LogoutKeeping(sess) == sess

\* the Logout button of render_theme_toggle
Logout ==
    /\ view \in {"admin", "user"}
    /\ logged_in' = FALSE
    /\ role' = None
    /\ email' = None
    /\ selected_ticket_id' = None
    /\ session' = LogoutKeeping(session)
    /\ screen' = "Login"
    /\ view' = Rendered(logged_in', role')
    /\ UNCHANGED <<pc, theme, entered, sent, cached, restOfSession>>

\* the pages on which the buttons of the admin dashboard were drawn
ViewScreens == {"Dashboard", "Search Results"}
CloseScreens == {"Ticket Details", "ValueError"}
BackScreens == {"Search Results", "No results", "No ticket data loaded."}

\* a click in the admin dashboard, and the runs that follow it
AdminClick(click, pick, query, bodies) ==
    /\ \E b1 \in bodies, b2 \in bodies, b3 \in bodies :
           AdminRunsDone(AdminRuns(session, selected_ticket_id, click, pick, query,
                                   <<b1, b2, b3>>))
    /\ view' = Rendered(logged_in, role)
    /\ UNCHANGED <<pc, logged_in, role, email, theme, entered, restOfSession>>

\* a View Details button of the dashboard or of the search results
SelectTicketOver(bodies) ==
    /\ view = "admin" /\ screen \in ViewScreens
    /\ \E pick \in TicketIds : AdminClick("view", pick, <<>>, bodies)

\* the Search button of render_admin_header
SearchOver(queries, bodies) ==
    /\ view = "admin"
    /\ \E query \in queries : AdminClick("search", None, query, bodies)

\* the Back to Dashboard button
BackToDashboardOver(bodies) ==
    /\ view = "admin" /\ screen \in BackScreens
    /\ AdminClick("back", None, <<>>, bodies)

\* the Close button of the ticket modal
CloseModalOver(bodies) ==
    /\ view = "admin" /\ screen \in CloseScreens
    /\ AdminClick("close", None, <<>>, bodies)

\* the pages of the user dashboard with the Submit Ticket button
SubmitScreens == {"Raise Ticket", "Please run Check Resolution first.",
                  "Please enter a ticket title.", "Ticket Created Successfully",
                  "Error creating ticket"}

\* a click in the Raise Ticket tab
UserClick(click, issue_text, title, body, sim_body, create_resp) ==
    /\ UserRunDone(user_router(session, sent, cached, click, issue_text, title, body,
                               sim_body, create_resp, email))
    /\ view' = Rendered(logged_in, role)
    /\ UNCHANGED <<pc, logged_in, role, email, theme, entered, restOfSession>>

\* the Check Resolution button
CheckResolutionOver(texts, bodies, sim_bodies) ==
    /\ view = "user" /\ screen # S_no_len
    /\ \E issue_text \in texts, body \in bodies, sim_body \in sim_bodies :
           UserClick("check", issue_text, <<>>, body, sim_body, None)

\* the Submit Ticket button, with the title left as it is or typed over
SubmitTicketOver(titles, responses) ==
    /\ view = "user" /\ screen \in SubmitScreens
    /\ \E typed \in titles, create_resp \in responses :
           UserClick("submit", <<>>,
                     IF typed = None THEN DefaultTitle(session).val.v ELSE typed.v,
                     None, None, create_resp)

\* the session of app.py, with one answer for each Lambda function
SessionBodies == {B_both}
SignIn == SignInAs(Emails, Passwords, SessionBodies)
ToggleTheme == ToggleThemeOver(SessionBodies)
SelectTicket == SelectTicketOver(SessionBodies)
SessionSearch == SearchOver({<<"V", "P", "N">>}, SessionBodies)
SessionBack == BackToDashboardOver(SessionBodies)
SessionClose == CloseModalOver(SessionBodies)
SessionCheck == CheckResolutionOver({S_vpn_down}, {B_network}, {B_similar})
SessionSubmit == SubmitTicketOver({None}, {R_created, R_not_json})

NextSession ==
    \/ SignIn \/ ToggleTheme \/ Logout
    \/ SelectTicket \/ SessionSearch \/ SessionBack \/ SessionClose
    \/ SessionCheck \/ SessionSubmit

SpecSession == InitSession /\ [][NextSession]_vars

-----------------------------------------------------------------------------
(* The Raise Ticket tab, for one user *)

UserSignIn == SignInAs({S_bob}, {S_user_password}, {})
CheckResolution == CheckResolutionOver(IssueTexts, ClassifyBodies, SimilarBodies)
SubmitTicket == SubmitTicketOver(Titles, CreateResponses)

NextRaise == UserSignIn \/ CheckResolution \/ SubmitTicket \/ Logout

SpecRaise == InitSession /\ [][NextRaise]_vars

-----------------------------------------------------------------------------
(* The admin dashboard, for the administrator *)

AdminSignIn == SignInAs({S_admin_email}, {S_admin_password}, TicketBodies)
ViewDetails == SelectTicketOver(TicketBodies)
SearchTickets == SearchOver(Queries, TicketBodies)
BackToDashboard == BackToDashboardOver(TicketBodies)
CloseModal == CloseModalOver(TicketBodies)

\* any other interaction with the page: the script runs again
AdminRefresh == view = "admin" /\ AdminClick("none", None, <<>>, TicketBodies)

NextAdmin ==
    \/ AdminSignIn \/ Logout
    \/ ViewDetails \/ SearchTickets \/ BackToDashboard \/ CloseModal \/ AdminRefresh

SpecAdmin == InitSession /\ [][NextAdmin]_vars

\* the latest sign-in used the admin e-mail, in any letter case, and the admin password
AdminCredentials ==
    /\ entered # None
    /\ StrLower(entered.v[1].v) = S_admin_email
    /\ entered.v[2].v = S_admin_password

\* C20: the dashboards are role-gated: in every reachable session state a dashboard
\* is rendered only when logged_in is true, the admin dashboard only when role is
\* admin, and role becomes admin only by a sign-in with the admin e-mail and the
\* admin password; every other successful sign-in gets role user and the user
\* dashboard.
C20_RoleGated ==
    /\ view \in {"login", "admin", "user"}
    /\ view \in {"admin", "user"} => logged_in
    /\ view = "admin" => role = PyStr(S_admin)
    /\ role = PyStr(S_admin) => (logged_in /\ AdminCredentials)
    /\ (logged_in /\ ~AdminCredentials) => (role = PyStr(S_user) /\ view = "user")

\* an administrator who typed the address in capitals has signed in, picked a
\* ticket and sees the admin dashboard
C20_Witness ==
    /\ view = "admin"
    /\ logged_in
    /\ role = PyStr(S_admin)
    /\ email = PyStr(<<"A", "D", "M", "I", "N", "@", "N", "S", "I", "G", "H", "T", ".", "C", "O", "M">>)
    /\ AdminCredentials
    /\ selected_ticket_id \in TicketIds

------------------------------------------------------------------------------
(* Free text without step markers, and the two definitions side by side *)

\* free narrative text: a string with some content, no digit, not a list literal
Narrative(x) ==
    /\ IsStr(x) /\ Strip(x.v) # <<>>
    /\ ~HasDigit(x.v) /\ ~LooksLikeList(Strip(x.v))

\* C22: on free narrative text without any numeric step marker,
\* smart_format_ai_output splits on ". " and newline boundaries into one bullet per
\* sentence or line; only when that yields no split does it emit exactly one bullet
\* holding the whole string.
C22_SentenceBullets ==
    Narrative(ai_output) =>
        \A o \in SmartOutcomes :
            /\ Returned(o)
            /\ IF Len(SentenceParts(ai_output.v)) > 1
               THEN Len(Bullets(o.val.v)) = Len(SentenceParts(ai_output.v))
               ELSE Len(Bullets(o.val.v)) = 1

\* C29: the two definitions of smart_format_ai_output, the one in utils.py and the
\* one in admin_app.py that replaces it for the admin ticket modal, produce the
\* same sequence of bullets for every input (list, encoded-list string, numbered
\* or plain free text).
C29_SameBullets ==
    ((IsList(ai_output) \/ IsStr(ai_output)) /\ smart # Pending /\ smart_admin # Pending) =>
        /\ Returned(smart) /\ Returned(smart_admin)
        /\ Bullets(smart.val.v) = Bullets(smart_admin.val.v)

-----------------------------------------------------------------------------
(* Claims about the Raise Ticket tab *)

\* C24: in every session state reachable by Check Resolution and Submit Ticket the
\* value stored under last_description is absent or a string, so that rendering
\* the Raise Ticket tab, which takes its first 60 characters as the default
\* title, is defined after every action, a successful submission included.
C24_DescriptionIsText ==
    /\ HasKey(session, K_last_description) => IsStr(session.v[K_last_description])
    /\ Returned(DefaultTitle(session))
    /\ screen # S_not_subscriptable

\* the submission of this step reached create_ticket
CallMade(title) ==
    /\ view = "user" /\ screen \in SubmitScreens
    /\ Returned(render_nav(session))
    /\ IsStr(Get(session, K_last_description, None))
    /\ session.v[K_last_description].v # <<>>
    /\ Strip(title) # <<>>

\* what the title input holds
TitleOf(typed) == IF typed = None THEN DefaultTitle(session).val.v ELSE typed.v

\* the response holds a body that is a mapping, or a string that decodes to one
HasMappingBody(resp) ==
    /\ IsDict(resp) /\ HasKey(resp, K_body)
    /\ \/ IsDict(resp.v[K_body])
       \/ /\ IsStr(resp.v[K_body])
          /\ Returned(json_loads(resp.v[K_body].v))
          /\ IsDict(json_loads(resp.v[K_body].v).val)

CacheKeys == {K_last_category, K_last_description, K_similar_tickets}

\* the three keys are cleared and no other key is touched
Cleared ==
    /\ DOMAIN session'.v = DOMAIN session.v \cup CacheKeys
    /\ session'.v[K_last_category] = None
    /\ session'.v[K_last_description] = None
    /\ session'.v[K_similar_tickets] = EmptyList
    /\ \A k \in DOMAIN session.v \ CacheKeys : session'.v[k] = session.v[k]

\* C25: Submit Ticket clears the cached classification (last_category,
\* last_description, similar_tickets) if and only if the create response holds a
\* body that is, or decodes to, a mapping; in every other case (no body, a body
\* that does not decode) all three keys keep the values they had.
C25_ClearedIffMappingBody ==
    [][\A typed \in Titles, create_resp \in CreateResponses :
          (/\ CallMade(TitleOf(typed))
           /\ UserClick("submit", <<>>, TitleOf(typed), None, None, create_resp))
          => IF HasMappingBody(create_resp) THEN Cleared ELSE session' = session]_vars

\* a submission has cleared the form of a checked description
C25_Witness ==
    /\ view = "user"
    /\ screen = "Ticket Created Successfully"
    /\ sent # None /\ sent.v[K_description] = PyStr(S_vpn_down)
    /\ \A k \in CacheKeys : HasKey(session, k)
    /\ session.v[K_last_category] = None /\ session.v[K_last_description] = None
    /\ session.v[K_similar_tickets] = EmptyList

\* last_category and last_description are present together, empty together, and
\* a description in the cache is there with the category of its own check
PairedCache ==
    /\ HasKey(session, K_last_description) <=> HasKey(session, K_last_category)
    /\ HasKey(session, K_last_description) =>
          \/ session.v[K_last_description] = None /\ session.v[K_last_category] = None
          \/ /\ cached # None
             /\ PyList(<<session.v[K_last_category], session.v[K_last_description]>>) = cached
             /\ IsStr(session.v[K_last_description])
             /\ Strip(session.v[K_last_description].v) # <<>>

\* a create_ticket call sends a non-blank title and the cached pair
SentPair ==
    (sent' # sent) =>
        /\ Strip(sent'.v[K_title].v) # <<>>
        /\ Truthy(sent'.v[K_description])
        /\ PyList(<<sent'.v[K_category], sent'.v[K_description]>>) = cached
        /\ sent'.v[K_description] = session.v[K_last_description]
        /\ sent'.v[K_category] = session.v[K_last_category]

\* C26: create_ticket is invoked only when last_description is non-empty and the
\* title is non-blank, and the description and category it sends are the pair
\* cached by one and the same Check Resolution action: across any sequence of
\* checks and submissions last_category and last_description are set together and
\* cleared together.
C26_PairFromOneCheck == [](PairedCache) /\ [][SentPair]_vars

\* a ticket was sent with the pair of the latest check, after an earlier check of
\* another description
C26_Witness ==
    /\ sent # None
    /\ sent.v[K_description] = PyStr(S_pay)
    /\ sent.v[K_category] = PyStr(S_network)
    /\ sent.v[K_title] = PyStr(S_my_title)
    /\ cached = PyList(<<PyStr(S_network), PyStr(S_pay)>>)
    /\ screen = "Error creating ticket"
    /\ session.v[K_last_description] = PyStr(S_pay)

-----------------------------------------------------------------------------
(* Claims about the admin dashboard *)

\* the tickets the latest run of admin_router stored
LoadedRows ==
    IF IsList(Get(session, K_admin_df, None)) THEN session.v[K_admin_df].v ELSE <<>>

\* C27: for every ticket of the admin list, whatever its status value, opening
\* the ticket modal succeeds: the status of the normalized ticket is one of the
\* options offered by the modal's status selector.
C27_StatusOffered ==
    view = "admin" =>
        /\ screen # "ValueError"
        /\ \A i \in 1..Len(LoadedRows) :
              IsDict(LoadedRows[i]) =>
                  In(normalize_ticket_data(LoadedRows[i]).val.v[K_status], StatusOptions)

\* what a run shows when it took the modal, and when it took the search results or
\* the dashboard; a KeyError of the frame can come from either
ModalScreens == {"Ticket Details", "Closed", "ValueError", "Ticket not found",
                 "No ticket selected or data unavailable.", "KeyError"}
OtherScreens == {"Dashboard", "No tickets_data available.", "Search Results", "No results",
                 "No ticket data loaded.", "Opening", "KeyError"}

\* the modal is due in this state
ModalDue == Truthy(Get(session, K_show_ticket_modal, None))

\* the tickets of a body that admin_router can load
FreshRows(body) == Get(body, K_tickets, EmptyList).v

\* the next run of the router, without a click, over the tickets of body
NextRun(body) == admin_router(session, selected_ticket_id, "none", None, body)

\* the run after ran
FollowingRun(ran, body) == admin_router(ran.session, ran.selected, "none", None, body)

\* C28: in the admin router the modal has priority over search results and
\* navigation, and show_ticket_modal stays true from one run to the next only
\* while selected_ticket_id names a ticket of the freshly loaded list: a run that
\* finds the selection unset, the list empty or the ticket missing sets
\* show_ticket_modal to false, so the following run shows search results or the
\* dashboard again.
C28_ModalWhileSelected ==
    (view = "admin" /\ ModalDue) =>
        \A body \in {b \in TicketBodies : IsDict(b)} :
            /\ NextRun(body).screen \in ModalScreens
            /\ Truthy(NextRun(body).session.v[K_show_ticket_modal]) =>
                  \E i \in 1..Len(FreshRows(body)) :
                      Cell(FreshRows(body)[i], K_id) = selected_ticket_id
            /\ ~Truthy(NextRun(body).session.v[K_show_ticket_modal]) =>
                  \A following \in {b \in TicketBodies : IsDict(b)} :
                      FollowingRun(NextRun(body), following).screen \in OtherScreens

-----------------------------------------------------------------------------
(* Claim about logout *)

\* the session keys logout does not name, apart from theme
KeptKeys == {K_last_category, K_last_description, K_similar_tickets, K_admin_df,
             K_show_ticket_modal, K_search_triggered, K_search_query}

\* C30: logout sets logged_in to false and role, email and selected_ticket_id to
\* null and leaves every other session key unchanged (theme, last_category,
\* last_description, similar_tickets, admin_df, show_ticket_modal,
\* search_triggered, search_query), so these values are still present for the
\* next sign-in in the same session.
C30_LogoutKeepsTheRest ==
    [][(logged_in /\ ~logged_in') =>
          /\ role' = None /\ email' = None /\ selected_ticket_id' = None
          /\ theme' = theme
          /\ DOMAIN session'.v = DOMAIN session.v
          /\ \A k \in DOMAIN session.v : session'.v[k] = session.v[k]]_vars

\* logged out with the theme changed and every other key still holding what the
\* two dashboards left in it
C30_Witness ==
    /\ ~logged_in /\ role = None /\ email = None /\ selected_ticket_id = None
    /\ view = "login" /\ screen = "Login"
    /\ theme = "dark"
    /\ KeptKeys \subseteq DOMAIN session.v
    /\ session.v[K_last_description] = PyStr(S_vpn_down)
    /\ session.v[K_last_category] = PyStr(S_network)
    /\ session.v[K_similar_tickets] # EmptyList
    /\ session.v[K_admin_df] # EmptyList
    /\ Truthy(session.v[K_show_ticket_modal])
    /\ session.v[K_search_query] # PyStr(<<>>)

====
